---- MODULE Spec2Model ----
(***************************************************************************)
(* A model of api/server/services/MCPJsonPath.js: the entry extractor, the *)
(* history loader with its runtime cache, and the placeholder evaluator.   *)
(*                                                                         *)
(* JavaScript values are records of one shape, [t, s, keys, kids]:         *)
(*   t     the type tag: "undefined" "null" "bool" "num" "str" "arr" "obj" *)
(*   s     the text of a scalar ("true", "42", "hello")                    *)
(*   keys  the property names of an object, in order                       *)
(*   kids  the property values of an object, the elements of an array, or, *)
(*         for a string whose characters are a JSON document, the one      *)
(*         value that document encodes                                     *)
(***************************************************************************)
EXTENDS Integers, Sequences, FiniteSets, TLC

\* ------------------------------------------------------------------ bounds
\* Concurrent calls in flight.
NCalls == 2
\* Messages persisted per conversation.
MaxMsgs == 1

\* ------------------------------------------------------------- JS values
Undefined == [t |-> "undefined", s |-> "", keys |-> <<>>, kids |-> <<>>]
JNull == [t |-> "null", s |-> "", keys |-> <<>>, kids |-> <<>>]
JBool(b) == [t |-> "bool", s |-> IF b THEN "true" ELSE "false", keys |-> <<>>, kids |-> <<>>]
JNum(n) == [t |-> "num", s |-> n, keys |-> <<>>, kids |-> <<>>]
\* A string that is not a JSON document ("" included).
JStr(s) == [t |-> "str", s |-> s, keys |-> <<>>, kids |-> <<>>]
\* The string JSON.stringify(v): a string whose characters encode v.
JText(v) == [t |-> "str", s |-> "<json>", keys |-> <<>>, kids |-> <<v>>]
JArr(items) == [t |-> "arr", s |-> "", keys |-> <<>>, kids |-> items]
JObj(ks, vs) == [t |-> "obj", s |-> "", keys |-> ks, kids |-> vs]

IsString(v) == v.t = "str"
IsArray(v) == v.t = "arr"
\* typeof v === 'object' (null included, as in JavaScript).
TypeofObject(v) == v.t \in {"obj", "arr", "null"}
\* JavaScript truthiness.
Truthy(v) ==
  CASE v.t \in {"undefined", "null"} -> FALSE
    [] v.t = "bool" -> v.s = "true"
    [] v.t = "num" -> v.s # "0"
    [] v.t = "str" -> ~(v.s = "" /\ v.kids = <<>>)
    [] OTHER -> TRUE
\* v[k] for a property name k; undefined when v has no such property.
Prop(v, k) ==
  IF v.t = "obj" /\ \E i \in 1..Len(v.keys) : v.keys[i] = k
    THEN v.kids[CHOOSE i \in 1..Len(v.keys) : v.keys[i] = k]
    ELSE Undefined

\* JSON.parse(x): x is first converted to a string, as JavaScript does.
\* The result is [ok |-> FALSE] when JSON.parse throws a SyntaxError.
RECURSIVE JSONparse(_)
JSONparse(x) ==
  CASE x.t = "str" ->
         IF x.kids # <<>> THEN [ok |-> TRUE, v |-> x.kids[1]] ELSE [ok |-> FALSE, v |-> JNull]
    [] x.t \in {"num", "bool", "null"} -> [ok |-> TRUE, v |-> x]
    [] x.t = "arr" ->
         \* String([e]) is String(e), with "" for null and undefined; two or
         \* more elements are joined by commas, which is no JSON document.
         IF Len(x.kids) = 1 /\ x.kids[1].t \notin {"null", "undefined"}
           THEN JSONparse(x.kids[1])
           ELSE [ok |-> FALSE, v |-> JNull]
    [] OTHER -> [ok |-> FALSE, v |-> JNull]

\* --------------------------------------------------------- entry extractor
\* tryParse: JSON.parse, with null for a SyntaxError.
tryParse(s) == IF JSONparse(s).ok THEN JSONparse(s).v ELSE JNull

\* The entries of the elements items[i..]: one per text item whose text
\* parses to a truthy value.
RECURSIVE TextItemEntries(_, _)
TextItemEntries(items, i) ==
  IF i > Len(items) THEN <<>>
  ELSE LET item == items[i]
           isTextPart == Truthy(item) /\ TypeofObject(item) /\ ~IsArray(item)
                           /\ Prop(item, "type") = JStr("text")
           inner == tryParse(Prop(item, "text"))
       IN  (IF isTextPart /\ Truthy(inner) THEN <<inner>> ELSE <<>>)
             \o TextItemEntries(items, i + 1)

parseToolCallOutput(obj) ==
  IF ~Truthy(obj) THEN <<>>
  ELSE IF IsArray(obj)
    THEN LET found == TextItemEntries(obj.kids, 1)
         IN  IF found = <<>> THEN <<obj>> ELSE found
    ELSE <<obj>>

\* A text (message.text, the text of a content part) is the sequence of its
\* pieces, each a string: a fence mark (three backticks), a word, a run of white
\* space JStr(" "), or JText(v), the characters of a JSON document.  A field
\* that holds a text is <<text>>, and <<>> when the field is missing or not
\* a string.
Tick == JStr("<fence>")
Space == JStr(" ")
\* The words /json/i matches.
JsonWords == {JStr("json"), JStr("JSON")}
\* A ```json block with that payload string, and the text s outside blocks.
Fence(payload) == <<Tick, JStr("json"), Space, payload, Space, Tick>>
Plain(s) == <<JStr(s)>>

\* The first position from i on that holds no white space (\s*).
RECURSIVE SkipSpaces(_, _)
SkipSpaces(text, i) ==
  IF i <= Len(text) /\ text[i] = Space THEN SkipSpaces(text, i + 1) ELSE i
\* The position of the first fence mark from i on, 0 when there is none.
RECURSIVE NextTick(_, _)
NextTick(text, i) ==
  IF i > Len(text) THEN 0 ELSE IF text[i] = Tick THEN i ELSE NextTick(text, i + 1)
\* The last position before e that holds no white space, from i down.
RECURSIVE SkipSpacesBack(_, _)
SkipSpacesBack(text, i) ==
  IF i >= 1 /\ text[i] = Space THEN SkipSpacesBack(text, i - 1) ELSE i
\* JSON.parse of the string the pieces make up: one document and nothing
\* else around it (white space apart).
ParsePayload(pieces) ==
  IF Len(pieces) = 1 THEN JSONparse(pieces[1]) ELSE [ok |-> FALSE, v |-> JNull]

\* The loop over re.exec(s), from position i of the text: a match is a
\* fence mark, \s*, json, \s*, the shortest payload, \s*, a fence mark, and
\* the search goes on behind the match.
RECURSIVE BlockEntries(_, _)
BlockEntries(text, i) ==
  IF i > Len(text) THEN <<>>
  ELSE LET j == SkipSpaces(text, i + 1)
           k == SkipSpaces(text, j + 1)
           e == NextTick(text, k)
           p == ParsePayload(SubSeq(text, k, SkipSpacesBack(text, e - 1)))
           keep == p.ok /\ Truthy(p.v) /\ TypeofObject(p.v) /\ ~IsArray(p.v)
       IN  IF text[i] = Tick /\ j <= Len(text) /\ text[j] \in JsonWords /\ e # 0
             THEN (IF keep THEN <<p.v>> ELSE <<>>) \o BlockEntries(text, e + 1)
             ELSE BlockEntries(text, i + 1)

\* The argument is a text field: <<>> or <<text>>.
extractJsonCodeBlocks(f) ==
  IF f = <<>> \/ f[1] = <<>> THEN <<>> ELSE BlockEntries(f[1], 1)

\* A content part: type, the nested tool_call object (<<>> when the part
\* has none), the part's own function.output and output, and its text field.
\* A tool-call object is [fnOut, out]: function.output and output.
ToolCall(fnOut, out) == [fnOut |-> fnOut, out |-> out]
Part(type, nested, fnOut, out, text) ==
  [type |-> type, nested |-> nested, fnOut |-> fnOut, out |-> out, text |-> text]

\* As ToolCallEntries, but output is preferred to function.output.
ToolCallEntriesOutputFirst(part) ==
  LET hasCall == part.nested # <<>> \/ part.type = "tool_call"
      toolCall == IF part.nested # <<>> THEN part.nested[1]
                  ELSE ToolCall(part.fnOut, part.out)
      outputString == IF IsString(toolCall.out) THEN toolCall.out
                      ELSE IF IsString(toolCall.fnOut) THEN toolCall.fnOut ELSE JNull
  IN  IF ~hasCall \/ ~Truthy(outputString) THEN <<>>
      ELSE parseToolCallOutput(tryParse(outputString))

\* The entries of one content part under rule 1 (tool-call outputs).
ToolCallEntries(part) ==
  LET hasCall == part.nested # <<>> \/ part.type = "tool_call"
      toolCall == IF part.nested # <<>> THEN part.nested[1]
                  ELSE ToolCall(part.fnOut, part.out)
      outputString == IF IsString(toolCall.fnOut) THEN toolCall.fnOut
                      ELSE IF IsString(toolCall.out) THEN toolCall.out ELSE JNull
  IN  IF ~hasCall \/ ~Truthy(outputString) THEN <<>>
      ELSE parseToolCallOutput(tryParse(outputString))

RECURSIVE PartsToolEntries(_, _)
PartsToolEntries(parts, i) ==
  IF i > Len(parts) THEN <<>>
  ELSE ToolCallEntries(parts[i]) \o PartsToolEntries(parts, i + 1)

RECURSIVE PartsBlockEntries(_, _)
PartsBlockEntries(parts, i) ==
  IF i > Len(parts) THEN <<>>
  ELSE (IF parts[i].type # "text" THEN <<>> ELSE extractJsonCodeBlocks(parts[i].text))
         \o PartsBlockEntries(parts, i + 1)

\* A message: its text field and its content field (<<>> when content is
\* not an array, <<parts>> otherwise).
Message(text, content) == [text |-> text, content |-> content]

\* As MessageEntries, but the blocks of message.text come first.
MessageEntriesTextFirst(msg) ==
  extractJsonCodeBlocks(msg.text)
    \o (IF msg.content = <<>> THEN <<>> ELSE PartsToolEntries(msg.content[1], 1))
    \o (IF msg.content = <<>> THEN <<>> ELSE PartsBlockEntries(msg.content[1], 1))

MessageEntries(msg) ==
  (IF msg.content = <<>> THEN <<>> ELSE PartsToolEntries(msg.content[1], 1))
    \o extractJsonCodeBlocks(msg.text)
    \o (IF msg.content = <<>> THEN <<>> ELSE PartsBlockEntries(msg.content[1], 1))

RECURSIVE MessagesEntries(_, _)
MessagesEntries(messages, i) ==
  IF i > Len(messages) THEN <<>>
  ELSE MessageEntries(messages[i]) \o MessagesEntries(messages, i + 1)

buildEntriesFromMessages(messages) == MessagesEntries(messages, 1)

\* ---------------------------------------------------- placeholder evaluator
\* The strings the evaluator rewrites are given by their characters:
\* JChars(<<"$", "{", "{", ...>>).  One element is one character, except
\* that the text of each escape sentinel is one element.
JChars(cs) == [t |-> "str", s |-> "<chars>", keys |-> cs, kids |-> <<>>]
ESC_DOLLAR_OPEN == "__ESC_DOLLAR_OPEN__"
ESC_DOLLAR == "__ESC_DOLLAR__"
Open == <<"$", "{", "{">>
Close == <<"}", "}">>

StartsWith(cs, pat) == Len(cs) >= Len(pat) /\ SubSeq(cs, 1, Len(pat)) = pat
EndsWith(cs, pat) == Len(cs) >= Len(pat) /\ SubSeq(cs, Len(cs) - Len(pat) + 1, Len(cs)) = pat
Drop(cs, n) == SubSeq(cs, n + 1, Len(cs))

\* String.prototype.replace with a global pattern that matches the literal
\* text pat: every occurrence, left to right, becomes rep.
RECURSIVE ReplaceAll(_, _, _)
ReplaceAll(cs, pat, rep) ==
  IF cs = <<>> THEN <<>>
  ELSE IF StartsWith(cs, pat) THEN rep \o ReplaceAll(Drop(cs, Len(pat)), pat, rep)
  ELSE <<Head(cs)>> \o ReplaceAll(Tail(cs), pat, rep)

RECURSIVE TrimLeft(_)
TrimLeft(cs) == IF cs # <<>> /\ Head(cs) = " " THEN TrimLeft(Tail(cs)) ELSE cs
RECURSIVE TrimRight(_)
TrimRight(cs) ==
  IF cs # <<>> /\ cs[Len(cs)] = " " THEN TrimRight(SubSeq(cs, 1, Len(cs) - 1)) ELSE cs
\* String.prototype.trim
Trim(cs) == TrimRight(TrimLeft(cs))

\* The characters of a string value, and JSON.stringify of a value.
RECURSIVE Stringify(_)
CharsOf(v) ==
  IF v.s = "<chars>" THEN v.keys
  ELSE IF v.kids # <<>> THEN Stringify(v.kids[1])
  ELSE IF v.s = "" THEN <<>> ELSE <<v.s>>
\* Inside a JSON string a quote and a backslash are escaped.
RECURSIVE EscapeChars(_)
EscapeChars(cs) ==
  IF cs = <<>> THEN <<>>
  ELSE (IF Head(cs) \in {"\"", "\\"} THEN <<"\\", Head(cs)>> ELSE <<Head(cs)>>)
         \o EscapeChars(Tail(cs))
RECURSIVE StringifyItems(_, _, _)
StringifyItems(ks, vs, i) ==
  IF i > Len(vs) THEN <<>>
  ELSE (IF i > 1 THEN <<",">> ELSE <<>>)
         \o (IF ks = <<>> THEN <<>> ELSE <<"\"", ks[i], "\"", ":">>)
         \o Stringify(vs[i])
         \o StringifyItems(ks, vs, i + 1)
Stringify(v) ==
  CASE v.t \in {"num", "bool"} -> <<v.s>>
    [] v.t \in {"null", "undefined"} -> <<"null">>
    [] v.t = "str" -> <<"\"">> \o EscapeChars(CharsOf(v)) \o <<"\"">>
    [] v.t = "arr" -> <<"[">> \o StringifyItems(<<>>, v.kids, 1) \o <<"]">>
    [] OTHER -> <<"{">> \o StringifyItems(v.keys, v.kids, 1) \o <<"}">>

normalizeExpr(expr) ==
  LET stripped == Trim(expr)
  IN  IF StartsWith(stripped, <<"$">>) THEN stripped ELSE <<"$">> \o stripped

\* The path engine (jsonpath-plus), for the paths $, [n], [-n], [*], .name:
\* a path is parsed into steps, and the steps select nodes of the document.
Digits == {"0", "1", "2"}
DigitValue(d) == CASE d = "0" -> 0 [] d = "1" -> 1 [] OTHER -> 2
Names == {"k", "m", "x", "y"}
IndexStep(n) == [kind |-> "index", n |-> n, name |-> ""]
WildStep == [kind |-> "wild", n |-> 0, name |-> ""]
NameStep(name) == [kind |-> "name", n |-> 0, name |-> name]

\* The steps of the path text cs (after the leading $): [ok, steps].
RECURSIVE ParseSteps(_)
ParseSteps(cs) ==
  LET more(n, step) ==
        LET rest == ParseSteps(Drop(cs, n))
        IN  [ok |-> rest.ok, steps |-> <<step>> \o rest.steps]
  IN  IF cs = <<>> THEN [ok |-> TRUE, steps |-> <<>>]
      ELSE IF Len(cs) >= 3 /\ cs[1] = "[" /\ cs[2] \in Digits /\ cs[3] = "]"
        THEN more(3, IndexStep(DigitValue(cs[2])))
      ELSE IF Len(cs) >= 4 /\ cs[1] = "[" /\ cs[2] = "-" /\ cs[3] \in Digits /\ cs[4] = "]"
        THEN more(4, IndexStep(0 - DigitValue(cs[3])))
      ELSE IF Len(cs) >= 3 /\ cs[1] = "[" /\ cs[2] = "*" /\ cs[3] = "]"
        THEN more(3, WildStep)
      ELSE IF Len(cs) >= 2 /\ cs[1] = "." /\ cs[2] \in Names
        THEN more(2, NameStep(cs[2]))
      ELSE [ok |-> FALSE, steps |-> <<>>]

\* The nodes one step selects from one node.
Select(node, step) ==
  CASE step.kind = "index" ->
         LET i == IF step.n < 0 THEN Len(node.kids) + step.n + 1 ELSE step.n + 1
         IN  IF node.t = "arr" /\ i >= 1 /\ i <= Len(node.kids) THEN <<node.kids[i]>> ELSE <<>>
    [] step.kind = "wild" -> IF node.t \in {"arr", "obj"} THEN node.kids ELSE <<>>
    [] OTHER -> IF Prop(node, step.name) # Undefined THEN <<Prop(node, step.name)>> ELSE <<>>

RECURSIVE SelectAll(_, _, _)
SelectAll(nodes, step, i) ==
  IF i > Len(nodes) THEN <<>> ELSE Select(nodes[i], step) \o SelectAll(nodes, step, i + 1)

RECURSIVE Walk(_, _, _)
Walk(nodes, steps, i) ==
  IF i > Len(steps) THEN nodes ELSE Walk(SelectAll(nodes, steps[i], 1), steps, i + 1)

\* JSONPath({path, json, wrap: true}): the matches, or a thrown error.  On
\* a path it cannot parse the engine throws when strict, and matches
\* nothing otherwise.
JSONPath(path, jsonRoot, strict) ==
  LET parsed == IF StartsWith(path, <<"$">>) THEN ParseSteps(Tail(path))
                ELSE [ok |-> FALSE, steps |-> <<>>]
  IN  IF parsed.ok THEN [thrown |-> FALSE, res |-> Walk(<<JArr(jsonRoot)>>, parsed.steps, 1)]
      ELSE [thrown |-> strict, res |-> <<>>]

\* As safeEval, without the catch block: the engine's error escapes.
safeEvalNoCatch(jsonPath, jsonRoot, strict) ==
  LET got == JSONPath(jsonPath, jsonRoot, strict)
  IN  IF got.thrown THEN [raised |-> TRUE, v |-> Undefined]
      ELSE [raised |-> FALSE, v |-> IF Len(got.res) = 1 THEN got.res[1] ELSE JArr(got.res)]

\* As safeEval, but a single match stays wrapped in its array.
safeEvalNoUnwrap(jsonPath, jsonRoot, strict) ==
  LET got == JSONPath(jsonPath, jsonRoot, strict)
  IN  IF got.thrown THEN [raised |-> FALSE, v |-> Undefined]
      ELSE [raised |-> FALSE, v |-> JArr(got.res)]

\* safeEval: [raised, v], v the value returned when nothing is raised.
safeEval(jsonPath, jsonRoot, strict) ==
  LET got == JSONPath(jsonPath, jsonRoot, strict)
  IN  IF got.thrown THEN [raised |-> FALSE, v |-> Undefined]
      ELSE [raised |-> FALSE, v |-> IF Len(got.res) = 1 THEN got.res[1] ELSE JArr(got.res)]

\* What the replace callback returns for one placeholder.
Rendered(result) ==
  IF result.t \in {"null", "undefined"} THEN <<>>
  ELSE IF result.t = "str" THEN CharsOf(result) ELSE Stringify(result)

\* The length of the shortest match of \$\{\{([\s\S]+?)\}\} at the start
\* of cs (0 when there is none), trying closers from position j on.
RECURSIVE MatchLen(_, _)
MatchLen(cs, j) ==
  IF j + 1 > Len(cs) THEN 0
  ELSE IF cs[j] = "}" /\ cs[j + 1] = "}" THEN j + 1
  ELSE MatchLen(cs, j + 1)
PlaceholderLen(cs) == IF StartsWith(cs, Open) THEN MatchLen(cs, 5) ELSE 0

\* As ReplacePlaceholders, but the text put in for a placeholder is
\* scanned for placeholders again.
RECURSIVE ReplacePlaceholdersRescan(_, _, _)
ReplacePlaceholdersRescan(cs, jsonRoot, strict) ==
  IF cs = <<>> THEN [raised |-> FALSE, cs |-> <<>>]
  ELSE LET n == PlaceholderLen(cs)
       IN  IF n = 0
             THEN LET rest == ReplacePlaceholdersRescan(Tail(cs), jsonRoot, strict)
                  IN  [raised |-> rest.raised, cs |-> <<Head(cs)>> \o rest.cs]
             ELSE LET got == safeEval(normalizeExpr(SubSeq(cs, 4, n - 2)), jsonRoot, strict)
                      rest == ReplacePlaceholdersRescan(Rendered(got.v) \o Drop(cs, n),
                                                        jsonRoot, strict)
                  IN  [raised |-> got.raised \/ rest.raised, cs |-> rest.cs]

\* input.replace(placeholderRegex, callback): [raised, cs].
RECURSIVE ReplacePlaceholders(_, _, _)
ReplacePlaceholders(cs, jsonRoot, strict) ==
  IF cs = <<>> THEN [raised |-> FALSE, cs |-> <<>>]
  ELSE LET n == PlaceholderLen(cs)
       IN  IF n = 0
             THEN LET rest == ReplacePlaceholders(Tail(cs), jsonRoot, strict)
                  IN  [raised |-> rest.raised, cs |-> <<Head(cs)>> \o rest.cs]
             ELSE LET got == safeEval(normalizeExpr(SubSeq(cs, 4, n - 2)), jsonRoot, strict)
                      rest == ReplacePlaceholders(Drop(cs, n), jsonRoot, strict)
                  IN  [raised |-> got.raised \/ rest.raised, cs |-> Rendered(got.v) \o rest.cs]

\* As EvaluateString, but a whole-string result is rendered as text too.
EvaluateStringAlwaysText(value, jsonRoot, strict) ==
  LET input == ReplaceAll(ReplaceAll(CharsOf(value), <<"\\">> \o Open, <<ESC_DOLLAR_OPEN>>),
                          <<"\\", "$">>, <<ESC_DOLLAR>>)
      replaced == ReplacePlaceholders(input, jsonRoot, strict)
  IN  [raised |-> replaced.raised,
       v |-> JChars(ReplaceAll(ReplaceAll(replaced.cs, <<ESC_DOLLAR_OPEN>>, Open),
                               <<ESC_DOLLAR>>, <<"$">>))]

\* evaluatePlaceholdersWithRoot for a string value.
EvaluateString(value, jsonRoot, strict) ==
  LET input == ReplaceAll(ReplaceAll(CharsOf(value), <<"\\">> \o Open, <<ESC_DOLLAR_OPEN>>),
                          <<"\\", "$">>, <<ESC_DOLLAR>>)
      trimmed == Trim(input)
      onlyOne == StartsWith(trimmed, Open) /\ EndsWith(trimmed, Close) /\ Len(trimmed) >= 6
      replaced == ReplacePlaceholders(input, jsonRoot, strict)
  IN  IF onlyOne
        THEN safeEval(normalizeExpr(SubSeq(trimmed, 4, Len(trimmed) - 2)), jsonRoot, strict)
        ELSE [raised |-> replaced.raised,
              v |-> JChars(ReplaceAll(ReplaceAll(replaced.cs, <<ESC_DOLLAR_OPEN>>, Open),
                                      <<ESC_DOLLAR>>, <<"$">>))]

\* The own properties that the assignments output[k] = v, for the keys
\* ks[i..] in order, leave on a plain object: the key __proto__ names the
\* prototype accessor, so assigning to it adds no own property.
RECURSIVE AssignedKeys(_, _)
AssignedKeys(ks, i) ==
  IF i > Len(ks) THEN <<>>
  ELSE (IF ks[i] = "__proto__" THEN <<>> ELSE <<ks[i]>>) \o AssignedKeys(ks, i + 1)
RECURSIVE AssignedValues(_, _, _)
AssignedValues(ks, vs, i) ==
  IF i > Len(ks) THEN <<>>
  ELSE (IF ks[i] = "__proto__" THEN <<>> ELSE <<vs[i]>>) \o AssignedValues(ks, vs, i + 1)

RECURSIVE evaluatePlaceholdersWithRoot(_, _, _)
\* The rewrites of the elements vs[i..]: [raised, vs].
RECURSIVE EvaluateEach(_, _, _, _)
EvaluateEach(vs, i, jsonRoot, strict) ==
  IF i > Len(vs) THEN [raised |-> FALSE, vs |-> <<>>]
  ELSE LET one == evaluatePlaceholdersWithRoot(vs[i], jsonRoot, strict)
           rest == EvaluateEach(vs, i + 1, jsonRoot, strict)
       IN  [raised |-> one.raised \/ rest.raised, vs |-> <<one.v>> \o rest.vs]

evaluatePlaceholdersWithRoot(value, jsonRoot, strict) ==
  CASE value.t \in {"null", "undefined"} -> [raised |-> FALSE, v |-> value]
    [] value.t = "str" -> EvaluateString(value, jsonRoot, strict)
    [] value.t = "arr" ->
         LET each == EvaluateEach(value.kids, 1, jsonRoot, strict)
         IN  [raised |-> each.raised, v |-> JArr(each.vs)]
    [] value.t = "obj" ->
         LET each == EvaluateEach(value.kids, 1, jsonRoot, strict)
         IN  [raised |-> each.raised,
              v |-> JObj(AssignedKeys(value.keys, 1), AssignedValues(value.keys, each.vs, 1))]
    [] OTHER -> [raised |-> FALSE, v |-> value]

\* buildJsonRoot: the entries themselves; context.r that is no array gives [].
buildJsonRoot(entries) == entries

evaluatePlaceholders(value, r, strict) ==
  evaluatePlaceholdersWithRoot(value, buildJsonRoot(r), strict)

\* ------------------------------------------------------------ model inputs
ObjK == JObj(<<"k">>, <<JNum("1")>>)
ObjM == JObj(<<"m">>, <<JStr("hello")>>)
TextItem(text) == JObj(<<"type", "text">>, <<JStr("text"), text>>)

\* What a live tool call hands to addRuntimeCachedEntry.
LiveResults ==
  { JText(ObjK),                                   \* a JSON object
    JText(JNum("42")),                             \* a JSON scalar
    JStr("oops"),                                  \* no JSON document
    JObj(<<"content">>, <<JArr(<<TextItem(JText(ObjM)), TextItem(JStr("oops"))>>)>>) }

\* What the message store holds for a conversation.
ToolPart(output) ==
  Part("tool_call", <<ToolCall(Undefined, output)>>, Undefined, Undefined, <<>>)
StoredMessages ==
  { Message(<<Plain("see") \o Fence(JText(ObjM)) \o Fence(JText(JArr(<<ObjK>>)))>>,
            <<<<ToolPart(JText(ObjK))>>>>) }

\* What a caller hands to evaluatePlaceholders: "${{!}}" (a path the engine
\* cannot parse), and an object with embedded placeholders in a string and
\* a whole-string placeholder in an array.
EvalInputs ==
  { JChars(Open \o <<"!">> \o Close),
    JObj(<<"a", "b">>,
         << JChars(<<"v", "=">> \o Open \o <<"[", "0", "]", ".", "k">> \o Close
                     \o Open \o <<"!">> \o Close),
            JArr(<<JChars(Open \o <<" ", "[", "-", "1", "]", " ">> \o Close), JNum("1")>>) >>) }

ConvIds == {"c1"}
\* A run identifier is <<>> (undefined) or <<id>>; any string can be an id,
\* the text "no-run" included.
RunIds == {<<>>, <<"r1">>, <<"no-run">>}

\* ------------------------------------------------------------ runtime cache
runtimeKey(conversationId, runId) ==
  conversationId \o ":" \o (IF runId = <<>> THEN "no-run" ELSE runId[1])

Keys == {runtimeKey(c, r) : c \in ConvIds, r \in RunIds}

VARIABLES
  cache,    \* cache backend: key -> <<>> (no value) or <<list>>
  db,       \* message store: conversation -> persisted messages
  calls,    \* the calls in flight, one record per slot
  started,  \* calls started so far
  lastLoad, \* per key: the latest completed loadHistory with nothing after it
  loaded,   \* per key: "no", or how far loadHistory has seeded the cache
  probe,    \* the latest application of a pure function: [op, input, output]
  jobs,        \* every job added to a queue so far, in the order of the adds
  startedJobs, \* per queue: the jobs started so far, in the order of the starts
  lastRequest, \* the latest HTTP request a route handled, with its reply
  agentRuns,   \* the calls of AgentController so far: [job, text]
  requests     \* requests and cron ticks so far

\* The state of the webhook routes and job queues, and the rest.
hooks == <<jobs, startedJobs, lastRequest, agentRuns, requests>>
core == <<cache, db, calls, started, lastLoad, loaded, probe>>
vars == <<cache, db, calls, started, lastLoad, loaded, probe,
          jobs, startedJobs, lastRequest, agentRuns, requests>>

\* The queues: queue of routes/agents/index.js, processQueue and
\* promptQueue of routes/webhooks.js, queue of services/initializeJobs.js.
QueueNames == {"queue", "processQueue", "promptQueue", "jobsQueue"}
NoRequest == [route |-> "none"]
HooksInit ==
  /\ jobs = <<>>
  /\ startedJobs = [q \in QueueNames |-> <<>>]
  /\ lastRequest = NoRequest
  /\ agentRuns = <<>>
  /\ requests = 0

Slots == 1..NCalls
\* Calls started in one behaviour.
MaxOps == 2

Idle ==
  [op |-> "idle", pc |-> "idle", conv |-> "", run |-> <<>>, arg |-> Undefined,
   msgs |-> <<>>, loc |-> <<>>, ret |-> <<>>, val |-> Undefined, raised |-> FALSE,
   fetched |-> FALSE, fetchOk |-> FALSE, wrote |-> FALSE, setOk |-> FALSE,
   \* what the call met, recorded for the properties below: whether its
   \* store.get succeeded and what the key held then, lastLoad and loaded
   \* of its key at that moment, and whether the call has so far run
   \* without another call for its key in flight and without an expiry.
   getOk |-> FALSE, seen |-> <<>>, prev |-> <<>>, seeded |-> "no", seq |-> FALSE]

KeyOf(call) == runtimeKey(call.conv, call.run)

NoProbe == [op |-> "none", input |-> Undefined, output |-> <<>>]

Init ==
  /\ cache = [k \in Keys |-> <<>>]
  /\ db = [conv \in ConvIds |-> <<>>]
  /\ calls = [c \in Slots |-> Idle]
  /\ started = 0
  /\ lastLoad = [k \in Keys |-> <<>>]
  /\ loaded = [k \in Keys |-> "no"]
  /\ probe = NoProbe
  /\ HooksInit

\* As setRuntimeCachedEntry, but an empty list is not written.
setRuntimeCachedEntrySkipEmpty(store, key, entries, setOk) ==
  IF setOk /\ entries # <<>> THEN [store EXCEPT ![key] = <<entries>>] ELSE store

\* The cache backend's set, as setRuntimeCachedEntry uses it: a failed
\* store.set is caught and logged, and the store keeps what it held.
setRuntimeCachedEntry(store, key, entries, setOk) ==
  IF setOk THEN [store EXCEPT ![key] = <<entries>>] ELSE store

\* As getRuntimeCachedEntries, but an empty cached array counts as none.
getRuntimeCachedEntriesNonEmpty(stored, getOk) ==
  IF getOk /\ stored # <<>> /\ stored[1] # <<>> THEN stored ELSE <<>>

\* getRuntimeCachedEntries: the stored array, or undefined (<<>>) when the
\* key holds none or store.get fails.
getRuntimeCachedEntries(stored, getOk) ==
  IF getOk THEN stored ELSE <<>>

\* loadHistory up to its first await of the message store: a cached list is
\* returned at once, anything else goes on to getMessages.
loadHistoryAfterGet(call, got) ==
  IF got # <<>>
    THEN [call EXCEPT !.ret = got[1], !.pc = "done"]
    ELSE [call EXCEPT !.fetched = TRUE, !.pc = "fetch"]

\* As loadHistoryAfterFetch, without the catch block.
loadHistoryAfterFetchNoCatch(call, fetchOk, messages) ==
  IF fetchOk
    THEN [call EXCEPT !.fetchOk = TRUE, !.msgs = messages,
                      !.loc = buildEntriesFromMessages(messages), !.pc = "set"]
    ELSE [call EXCEPT !.raised = TRUE, !.pc = "done"]

\* As loadHistoryAfterFetch, but the cached list is the first entry only.
loadHistoryAfterFetchFirstOnly(call, fetchOk, messages) ==
  IF fetchOk
    THEN [call EXCEPT !.fetchOk = TRUE, !.msgs = messages,
                      !.loc = IF buildEntriesFromMessages(messages) = <<>> THEN <<>>
                              ELSE <<Head(buildEntriesFromMessages(messages))>>,
                      !.pc = "set"]
    ELSE [call EXCEPT !.ret = <<>>, !.raised = FALSE, !.pc = "done"]

\* loadHistory after getMessages: a rejection lands in the catch block.
loadHistoryAfterFetch(call, fetchOk, messages) ==
  IF fetchOk
    THEN [call EXCEPT !.fetchOk = TRUE, !.msgs = messages,
                      !.loc = buildEntriesFromMessages(messages), !.pc = "set"]
    ELSE [call EXCEPT !.ret = <<>>, !.raised = FALSE, !.pc = "done"]

\* As loadHistoryAfterSet, but a failed cache write empties the result.
loadHistoryAfterSetEmptyOnFailure(call, setOk) ==
  [call EXCEPT !.wrote = TRUE, !.setOk = setOk,
               !.ret = IF setOk THEN call.loc ELSE <<>>, !.pc = "done"]

\* loadHistory after setRuntimeCachedEntry, which never rejects.
loadHistoryAfterSet(call, setOk) ==
  [call EXCEPT !.wrote = TRUE, !.setOk = setOk, !.ret = call.loc, !.pc = "done"]

\* As addEntries, but a string result is not JSON-parsed first.
addEntriesNoParse(result) ==
  IF IsArray(result) THEN parseToolCallOutput(result)
  ELSE IF Truthy(result) /\ TypeofObject(result) /\ Truthy(Prop(result, "content"))
    THEN parseToolCallOutput(Prop(result, "content"))
  ELSE parseToolCallOutput(result)

\* The entries addRuntimeCachedEntry extracts from a live result.
addEntries(result) ==
  IF IsString(result) THEN parseToolCallOutput(tryParse(result))
  ELSE IF IsArray(result) THEN parseToolCallOutput(result)
  ELSE IF Truthy(result) /\ TypeofObject(result) /\ Truthy(Prop(result, "content"))
    THEN parseToolCallOutput(Prop(result, "content"))
  ELSE parseToolCallOutput(result)

\* As addAfterGet, but a missing list counts as an empty one.
addAfterGetCreate(call, stored, getOk) ==
  IF ~getOk
    THEN [call EXCEPT !.pc = "done"]
    ELSE [call EXCEPT !.loc = (IF stored = <<>> THEN <<>> ELSE stored[1]) \o addEntries(call.arg),
                      !.pc = "write"]

\* As addAfterGet, but the new entries are put in front.
addAfterGetPrepend(call, stored, getOk) ==
  IF ~getOk \/ stored = <<>>
    THEN [call EXCEPT !.pc = "done"]
    ELSE [call EXCEPT !.loc = addEntries(call.arg) \o stored[1], !.pc = "write"]

\* addRuntimeCachedEntry up to store.set: without a cached array (or with a
\* failed store.get, caught) it returns; otherwise the new entries are
\* pushed onto the array it read.
addAfterGet(call, stored, getOk) ==
  IF ~getOk \/ stored = <<>>
    THEN [call EXCEPT !.pc = "done"]
    ELSE [call EXCEPT !.loc = stored[1] \o addEntries(call.arg), !.pc = "write"]

\* As addWrite, but the new entries are appended to the list the store
\* holds at the time of the write.
addWriteMerge(store, call, setOk) ==
  IF setOk
    THEN [store EXCEPT ![KeyOf(call)] =
            <<(IF @ = <<>> THEN <<>> ELSE @[1]) \o addEntries(call.arg)>>]
    ELSE store

\* addRuntimeCachedEntry's store.set; a rejection is caught.
addWrite(store, call, setOk) ==
  IF setOk THEN [store EXCEPT ![KeyOf(call)] = <<call.loc>>] ELSE store

\* ----------------------------------------------------------------- actions
InFlightOn(c, k) == calls[c].pc \notin {"idle", "done"} /\ KeyOf(calls[c]) = k

\* loaded[k] once a loadHistory for k has returned: "seeded" when it found
\* or wrote the list in the cache, "returned" when it did neither.
AfterLoad(k, cached) ==
  [loaded EXCEPT ![k] = IF cached THEN "seeded" ELSE IF @ = "no" THEN "returned" ELSE @]

\* A call starts in the first slot that is free (never used, or finished).
Begin(c, call) ==
  /\ calls[c].pc \in {"idle", "done"}
  /\ \A d \in Slots : d < c => calls[d].pc \notin {"idle", "done"}
  /\ started < MaxOps
  /\ started' = started + 1
  /\ calls' = [d \in Slots |->
                 IF d = c THEN [call EXCEPT !.seq = ~\E e \in Slots \ {c} : InFlightOn(e, KeyOf(call))]
                 ELSE IF InFlightOn(d, KeyOf(call)) THEN [calls[d] EXCEPT !.seq = FALSE]
                 ELSE calls[d]]

LoadHistoryCall(c) ==
  \E conv \in ConvIds, run \in RunIds :
    /\ Begin(c, [Idle EXCEPT !.op = "loadHistory", !.pc = "get", !.conv = conv, !.run = run])
    /\ UNCHANGED <<hooks, probe, cache, db, lastLoad, loaded>>

LoadHistoryGet(c) ==
  /\ calls[c].op = "loadHistory" /\ calls[c].pc = "get"
  /\ \E getOk \in BOOLEAN :
       LET k == KeyOf(calls[c])
           seenCall == [calls[c] EXCEPT !.getOk = getOk, !.seen = cache[k],
                                        !.prev = lastLoad[k]]
           next == loadHistoryAfterGet(seenCall, getRuntimeCachedEntries(cache[k], getOk))
       IN  /\ calls' = [calls EXCEPT ![c] = next]
           /\ lastLoad' = IF next.pc = "done"
                            THEN [lastLoad EXCEPT ![k] = <<[list |-> next.ret, cached |-> TRUE]>>]
                            ELSE lastLoad
           /\ loaded' = IF next.pc = "done" THEN AfterLoad(k, TRUE) ELSE loaded
  /\ UNCHANGED <<hooks, probe, cache, db, started>>

LoadHistoryFetch(c) ==
  /\ calls[c].op = "loadHistory" /\ calls[c].pc = "fetch"
  /\ \E fetchOk \in BOOLEAN :
       LET k == KeyOf(calls[c])
           next == loadHistoryAfterFetch(calls[c], fetchOk, db[calls[c].conv])
       IN  /\ calls' = [calls EXCEPT ![c] = next]
           /\ lastLoad' = IF next.pc = "done"
                            THEN [lastLoad EXCEPT ![k] = <<[list |-> next.ret, cached |-> FALSE]>>]
                            ELSE lastLoad
           /\ loaded' = IF next.pc = "done" THEN AfterLoad(k, FALSE) ELSE loaded
  /\ UNCHANGED <<hooks, probe, cache, db, started>>

LoadHistorySet(c) ==
  /\ calls[c].op = "loadHistory" /\ calls[c].pc = "set"
  /\ \E setOk \in BOOLEAN :
       LET k == KeyOf(calls[c])
           next == loadHistoryAfterSet(calls[c], setOk)
       IN  /\ cache' = setRuntimeCachedEntry(cache, k, calls[c].loc, setOk)
           /\ calls' = [calls EXCEPT ![c] = next]
           /\ lastLoad' = [lastLoad EXCEPT ![k] = <<[list |-> next.ret, cached |-> setOk]>>]
           /\ loaded' = AfterLoad(k, setOk)
  /\ UNCHANGED <<hooks, probe, db, started>>

AddCall(c) ==
  \E conv \in ConvIds, run \in RunIds, result \in LiveResults :
    /\ Begin(c, [Idle EXCEPT !.op = "add", !.pc = "get", !.conv = conv, !.run = run,
                             !.arg = result])
    /\ lastLoad' = [lastLoad EXCEPT ![runtimeKey(conv, run)] = <<>>]
    /\ UNCHANGED <<hooks, probe, cache, db, loaded>>

AddGet(c) ==
  /\ calls[c].op = "add" /\ calls[c].pc = "get"
  /\ \E getOk \in BOOLEAN :
       LET k == KeyOf(calls[c])
           seenCall == [calls[c] EXCEPT !.getOk = getOk, !.seen = cache[k],
                                        !.seeded = loaded[k]]
           next == addAfterGet(seenCall, cache[k], getOk)
       IN  calls' = [calls EXCEPT ![c] = next]
  /\ UNCHANGED <<hooks, probe, cache, db, started, lastLoad, loaded>>

AddWrite(c) ==
  /\ calls[c].op = "add" /\ calls[c].pc = "write"
  /\ \E setOk \in BOOLEAN :
       /\ cache' = addWrite(cache, calls[c], setOk)
       /\ calls' = [calls EXCEPT ![c] = [@ EXCEPT !.wrote = TRUE, !.setOk = setOk, !.pc = "done"]]
  /\ lastLoad' = [lastLoad EXCEPT ![KeyOf(calls[c])] = <<>>]
  /\ UNCHANGED <<hooks, probe, db, started, loaded>>

\* setRuntimeCachedEntry called from outside the module.
SetCall(c) ==
  \E conv \in ConvIds, run \in RunIds, entries \in {<<>>, <<ObjM>>} :
    /\ Begin(c, [Idle EXCEPT !.op = "set", !.pc = "write", !.conv = conv, !.run = run,
                             !.loc = entries])
    /\ UNCHANGED <<hooks, probe, cache, db, lastLoad, loaded>>

SetWrite(c) ==
  /\ calls[c].op = "set" /\ calls[c].pc = "write"
  /\ \E setOk \in BOOLEAN :
       /\ cache' = setRuntimeCachedEntry(cache, KeyOf(calls[c]), calls[c].loc, setOk)
       /\ calls' = [calls EXCEPT ![c] = [@ EXCEPT !.wrote = TRUE, !.setOk = setOk, !.pc = "done"]]
  /\ lastLoad' = [lastLoad EXCEPT ![KeyOf(calls[c])] = <<>>]
  /\ UNCHANGED <<hooks, probe, db, started, loaded>>

\* evaluatePlaceholders, over a history that loadHistory returned or over
\* no history at all.  It is synchronous: one step from call to return.
EvalCall(c) ==
  \E value \in EvalInputs, strict \in BOOLEAN,
     r \in {<<>>} \cup {calls[d].ret : d \in {e \in Slots : calls[e].op = "loadHistory"
                                                            /\ calls[e].pc = "done"}} :
    LET got == evaluatePlaceholders(value, r, strict)
    IN  /\ Begin(c, [Idle EXCEPT !.op = "eval", !.pc = "done", !.arg = value,
                                 !.loc = r, !.val = got.v, !.raised = got.raised])
        /\ UNCHANGED <<hooks, probe, cache, db, lastLoad, loaded>>

\* The cache backend drops a key whose TTL has run out.
Expire(k) ==
  /\ cache[k] # <<>>
  /\ cache' = [cache EXCEPT ![k] = <<>>]
  /\ lastLoad' = [lastLoad EXCEPT ![k] = <<>>]
  /\ loaded' = [loaded EXCEPT ![k] = "no"]
  /\ calls' = [d \in Slots |->
                 IF InFlightOn(d, k) THEN [calls[d] EXCEPT !.seq = FALSE] ELSE calls[d]]
  /\ UNCHANGED <<hooks, probe, db, started>>

\* The application persists one more message of a conversation.
SaveMessage(conv) ==
  /\ Len(db[conv]) < MaxMsgs
  /\ \E m \in StoredMessages : db' = [db EXCEPT ![conv] = Append(@, m)]
  /\ UNCHANGED <<hooks, probe, cache, calls, started, lastLoad, loaded>>

Next ==
  \/ \E c \in Slots : LoadHistoryCall(c)
  \/ \E c \in Slots : LoadHistoryGet(c)
  \/ \E c \in Slots : LoadHistoryFetch(c)
  \/ \E c \in Slots : LoadHistorySet(c)
  \/ \E c \in Slots : AddCall(c)
  \/ \E c \in Slots : AddGet(c)
  \/ \E c \in Slots : AddWrite(c)
  \/ \E c \in Slots : SetCall(c)
  \/ \E c \in Slots : SetWrite(c)
  \/ \E c \in Slots : EvalCall(c)
  \/ \E k \in Keys : Expire(k)
  \/ \E conv \in ConvIds : SaveMessage(conv)

Spec == Init /\ [][Next]_vars

\* ------------------------------------------- live results on a seeded cache
\* The state after loadHistory has seeded every key for a conversation
\* without messages.
InitSeeded ==
  /\ cache = [k \in Keys |-> << <<>> >>]
  /\ db = [conv \in ConvIds |-> <<>>]
  /\ calls = [c \in Slots |-> Idle]
  /\ started = 0
  /\ lastLoad = [k \in Keys |-> <<[list |-> <<>>, cached |-> TRUE]>>]
  /\ loaded = [k \in Keys |-> "seeded"]
  /\ probe = NoProbe
  /\ HooksInit

\* Tool calls of a run report their results; nothing else touches the cache.
NextAdd ==
  \/ \E c \in Slots : AddCall(c)
  \/ \E c \in Slots : AddGet(c)
  \/ \E c \in Slots : AddWrite(c)

SpecAdd == InitSeeded /\ [][NextAdd]_vars

\* ------------------------------------------------ the extractor on its own
\* The elements a tool output's array is built from.
OutputItems ==
  { TextItem(JText(ObjK)), TextItem(JText(ObjM)), TextItem(JText(JNum("42"))),
    TextItem(JText(JNum("0"))), TextItem(JText(JNull)), TextItem(JText(JBool(FALSE))),
    TextItem(JText(JStr(""))), TextItem(JStr("oops")),
    JObj(<<"type">>, <<JStr("text")>>),
    JObj(<<"type", "text">>, <<JStr("image"), JText(ObjK)>>),
    ObjK, JNum("1") }
\* Longest array in a tool output.
MaxItems == 2
RECURSIVE SeqsUpTo(_, _)
SeqsUpTo(S, n) ==
  IF n = 0 THEN {<<>>}
  ELSE SeqsUpTo(S, n - 1) \cup {Append(q, x) : q \in {r \in SeqsUpTo(S, n - 1) : Len(r) = n - 1}, x \in S}
\* The output strings of tool calls: arrays, an object, scalars, no JSON.
ToolOutputs ==
  {JText(JArr(items)) : items \in SeqsUpTo(OutputItems, MaxItems)}
    \cup {JText(ObjK), JText(JNum("42")), JText(JNum("0")), JText(JNull), JStr("oops"), JStr("")}

\* The extractor applied to a persisted tool call with output string s.
ExtractToolOutput ==
  /\ probe.op = "none"
  /\ \E s \in ToolOutputs :
       probe' = [op |-> "toolOutput", input |-> s, output |-> ToolCallEntries(ToolPart(s))]
  /\ UNCHANGED <<hooks, cache, db, calls, started, lastLoad, loaded>>

\* addRuntimeCachedEntry's extraction applied to a live result s.
ExtractLiveResult ==
  /\ probe.op = "none"
  /\ \E s \in ToolOutputs :
       probe' = [op |-> "liveResult", input |-> s, output |-> addEntries(s)]
  /\ UNCHANGED <<hooks, cache, db, calls, started, lastLoad, loaded>>

\* Persisted histories in which every source of entries carries its place:
\* message m, rule ("tool", "text" or "part"), content part p, and b, its
\* rank within that source.
\* Messages in a history.
MaxHistory == 2
\* Content parts in a message.
MaxParts == 2
\* Fenced blocks in one text.
MaxBlocks == 2
Tag(m, rule, p, b) ==
  JObj(<<"msg", "rule", "part", "block">>,
       <<JNum(ToString(m)), JStr(rule), JNum(ToString(p)), JNum(ToString(b))>>)
\* The text "see" followed by the blocks b..n of one source.
RECURSIVE TaggedBlocks(_, _, _, _, _)
TaggedBlocks(m, rule, p, b, n) ==
  IF b > n THEN <<>>
  ELSE Fence(JText(Tag(m, rule, p, b))) \o Plain("see") \o TaggedBlocks(m, rule, p, b + 1, n)
\* A layout is the types of a message's content parts and the number of
\* blocks in its text (none, or MaxBlocks).  A tool call's output is an
\* array of two text items, a text part holds MaxBlocks blocks.
Layouts ==
  [parts : SeqsUpTo({"tool_call", "text"}, MaxParts), blocks : {0, MaxBlocks}]
TaggedPart(m, p, type) ==
  IF type = "tool_call"
    THEN ToolPart(JText(JArr(<<TextItem(JText(Tag(m, "tool", p, 1))),
                               TextItem(JText(Tag(m, "tool", p, 2)))>>)))
    ELSE Part("text", <<>>, Undefined, Undefined,
              <<Plain("see") \o TaggedBlocks(m, "part", p, 1, MaxBlocks)>>)
TaggedMessage(m, layout) ==
  Message(<<Plain("see") \o TaggedBlocks(m, "text", 0, 1, layout.blocks)>>,
          <<[p \in 1..Len(layout.parts) |-> TaggedPart(m, p, layout.parts[p])]>>)
History(layouts) == [m \in 1..Len(layouts) |-> TaggedMessage(m, layouts[m])]

\* The JSON root built from the entries of a persisted history.
ExtractMessages ==
  /\ probe.op = "none"
  /\ \E layouts \in SeqsUpTo(Layouts, MaxHistory) :
       probe' = [op |-> "messages", input |-> layouts,
                 output |-> buildJsonRoot(buildEntriesFromMessages(History(layouts)))]
  /\ UNCHANGED <<hooks, cache, db, calls, started, lastLoad, loaded>>

\* Texts given by their segments: a json block in one of three spellings,
\* a block of another language, or text outside blocks ("see", or a line
\* that starts with the word JSON).
\* Segments in a text.
MaxSegs == 3
Seg(kind, body) == [kind |-> kind, body |-> body]
BlockKinds == {"json", "upper", "tight"}
Segments ==
  {Seg("json", p) : p \in {JText(ObjK), JText(ObjM), JText(JArr(<<ObjK>>)),
                            JText(JNum("42")), JText(JNull), JStr("oops")}}
    \cup {Seg("upper", JText(ObjK)), Seg("tight", JText(ObjM)),
          Seg("other", JText(ObjK)), Seg("plain", JStr("see")), Seg("plain", JStr("JSON"))}
RenderSeg(seg) ==
  CASE seg.kind = "json" -> Fence(seg.body)
    [] seg.kind = "upper" -> <<Tick, JStr("JSON"), Space, seg.body, Space, Tick>>
    [] seg.kind = "tight" -> <<Tick, JStr("json"), seg.body, Tick>>
    [] seg.kind = "other" -> <<Tick, JStr("py"), Space, seg.body, Space, Tick>>
    [] OTHER -> <<seg.body>>
RECURSIVE RenderText(_, _)
RenderText(segs, i) ==
  IF i > Len(segs) THEN <<>> ELSE RenderSeg(segs[i]) \o RenderText(segs, i + 1)

\* extractJsonCodeBlocks applied to a text.
ExtractBlocks ==
  /\ probe.op = "none"
  /\ \E segs \in SeqsUpTo(Segments, MaxSegs) :
       probe' = [op |-> "blocks", input |-> segs,
                 output |-> extractJsonCodeBlocks(<<RenderText(segs, 1)>>)]
  /\ UNCHANGED <<hooks, cache, db, calls, started, lastLoad, loaded>>

\* Tool-call parts given by their shape: whether the tool call is nested
\* under the part's tool_call field, and what function.output and output
\* hold ("absent", "number": a value that is no string, "json": the text of
\* a JSON object that names the part and the field, "bad": a string that is
\* no JSON document, "empty": the empty string).
PartShapes ==
  [nested : BOOLEAN, fn : {"absent", "number", "json", "bad", "empty"},
   out : {"absent", "json", "bad"}]
FieldValue(kind, p, field) ==
  CASE kind = "absent" -> Undefined
    [] kind = "number" -> JNum("5")
    [] kind = "json" -> JText(Tag(1, field, p, 1))
    [] kind = "bad" -> JStr("oops")
    [] OTHER -> JStr("")
ShapedPart(p, shape) ==
  LET fn == FieldValue(shape.fn, p, "fn")
      out == FieldValue(shape.out, p, "out")
  IN  IF shape.nested
        THEN Part("tool_call", <<ToolCall(fn, out)>>, Undefined, Undefined, <<>>)
        ELSE Part("tool_call", <<>>, fn, out, <<>>)
\* A history of two messages: the first holds the shaped parts, the second
\* one json block in its text.
ShapedHistory(shapes) ==
  << Message(<<>>, <<[p \in 1..Len(shapes) |-> ShapedPart(p, shapes[p])]>>),
     Message(<<TaggedBlocks(2, "text", 0, 1, 1)>>, <<>>) >>

\* buildEntriesFromMessages applied to a history with tool-call parts.
ExtractToolParts ==
  /\ probe.op = "none"
  /\ \E shapes \in SeqsUpTo(PartShapes, MaxParts) :
       probe' = [op |-> "toolParts", input |-> shapes,
                 output |-> buildEntriesFromMessages(ShapedHistory(shapes))]
  /\ UNCHANGED <<hooks, cache, db, calls, started, lastLoad, loaded>>

NextExtract ==
  \/ ExtractToolOutput
  \/ ExtractLiveResult
  \/ ExtractMessages
  \/ ExtractBlocks
  \/ ExtractToolParts

SpecExtract == Init /\ [][NextExtract]_vars

\* ------------------------------------------------ the evaluator on its own
\* The entries of the JSON root: every JSON type under some name.
EntryA ==
  JObj(<<"x", "y", "m", "k">>,
       <<JNum("42"), JObj(<<"y">>, <<JNum("1")>>), JStr("hello"), JArr(<<JNum("1"), JNum("2")>>)>>)
EntryB == JObj(<<"x", "y", "k">>, <<JNull, JBool(FALSE), JNum("7")>>)
Roots == {<<EntryA>>, <<EntryA, EntryB>>}

\* The expressions written inside placeholders: cs is the text between
\* the braces; kind, i and n say what the path asks for ("prop": name n of
\* entry i, "wild": name n of every entry, "bad": a path the engine cannot
\* parse).
Query(id, cs, kind, i, n) == [id |-> id, cs |-> cs, kind |-> kind, i |-> i, n |-> n]
Queries ==
  { Query("x0", <<" ", "$", "[", "0", "]", ".", "x", " ">>, "prop", 0, "x"),
    Query("y0", <<"[", "0", "]", ".", "y">>, "prop", 0, "y"),
    Query("m0", <<" ", "[", "0", "]", ".", "m">>, "prop", 0, "m"),
    Query("k0", <<"$", "[", "0", "]", ".", "k">>, "prop", 0, "k"),
    Query("x1", <<"[", "1", "]", ".", "x">>, "prop", 1, "x"),
    Query("y1", <<"[", "1", "]", ".", "y", " ">>, "prop", 1, "y"),
    Query("k*", <<"[", "*", "]", ".", "k">>, "wild", 0, "k"),
    Query("bad", <<"!">>, "bad", 0, "") }
QueryOf(id) == CHOOSE q \in Queries : q.id = id

\* A string is given by its pieces: a placeholder, literal text, white
\* space, a backslash-escaped opener, a backslash-escaped $.
Piece(kind, cs, q) == [kind |-> kind, cs |-> cs, q |-> q]
Ph(id) == Piece("ph", Open \o QueryOf(id).cs \o Close, id)
Lit(cs) == Piece("lit", cs, "")
Ws == Piece("ws", <<" ">>, "")
EscOpen == Piece("escOpen", <<"\\">> \o Open, "")
EscDollar == Piece("escDollar", <<"\\", "$">>, "")
\* The text that follows an opener in a placeholder: " $[0].x }}".
Tail0 == Lit(<<" ", "$", "[", "0", "]", ".", "x", " ">> \o Close)
Pieces ==
  {Ph(id) : id \in {"x0", "y0", "m0", "x1", "k*", "bad"}}
    \cup {Lit(<<"v", "=">>), Tail0, Ws, EscOpen, EscDollar}
\* Pieces in a string.
MaxPieces == 3
Templates == SeqsUpTo(Pieces, MaxPieces)
RECURSIVE RenderTemplate(_, _)
RenderTemplate(t, i) ==
  IF i > Len(t) THEN <<>> ELSE t[i].cs \o RenderTemplate(t, i + 1)

\* The strings that are one placeholder, with or without white space
\* around it.
WholeTemplates ==
  UNION {{<<Ph(q.id)>>, <<Ws, Ph(q.id)>>, <<Ph(q.id), Ws>>, <<Ws, Ph(q.id), Ws>>} : q \in Queries}

\* evaluatePlaceholders applied to a string that is one placeholder.
EvaluateWhole ==
  /\ probe.op = "none"
  /\ \E t \in WholeTemplates, r \in Roots, strict \in BOOLEAN :
       LET got == evaluatePlaceholders(JChars(RenderTemplate(t, 1)), r, strict)
       IN  probe' = [op |-> "eval", input |-> t, root |-> r, strict |-> strict,
                     output |-> got.v, raised |-> got.raised]
  /\ UNCHANGED <<hooks, cache, db, calls, started, lastLoad, loaded>>

\* evaluatePlaceholders applied to a string.
EvaluateTemplate ==
  /\ probe.op = "none"
  /\ \E t \in Templates, r \in Roots, strict \in BOOLEAN :
       LET got == evaluatePlaceholders(JChars(RenderTemplate(t, 1)), r, strict)
       IN  probe' = [op |-> "eval", input |-> t, root |-> r, strict |-> strict,
                     output |-> got.v, raised |-> got.raised]
  /\ UNCHANGED <<hooks, cache, db, calls, started, lastLoad, loaded>>

\* The values other than strings: scalars, and arrays and objects of up to
\* MaxElems elements.
MaxElems == 2
Elements ==
  { JNum("1"), JNull,
    JChars(Ph("x0").cs),
    JChars(<<"v", "=">> \o Ph("m0").cs),
    JArr(<<JChars(Ph("y0").cs)>>),
    JObj(<<"a">>, <<JChars(Ph("k0").cs)>>) }
\* The keys of an object of n properties: k1, k2, ..., with __proto__ in
\* place of the key at position proto (0: nowhere), as JSON.parse creates
\* it for a document that holds that key.
KeyList(n, proto) == [i \in 1..n |-> IF i = proto THEN "__proto__" ELSE "k" \o ToString(i)]
ShapedValues ==
  {Undefined, JNull, JNum("7"), JBool(TRUE)}
    \cup {JArr(vs) : vs \in SeqsUpTo(Elements, MaxElems)}
    \cup UNION {{JObj(KeyList(Len(vs), proto), vs) : proto \in 0..Len(vs)} :
                  vs \in SeqsUpTo(Elements, MaxElems)}

\* evaluatePlaceholders applied to a value that is no string.
EvaluateValue ==
  /\ probe.op = "none"
  /\ \E value \in ShapedValues, r \in Roots, strict \in BOOLEAN :
       LET got == evaluatePlaceholders(value, r, strict)
       IN  probe' = [op |-> "evalValue", input |-> value, root |-> r, strict |-> strict,
                     output |-> got.v, raised |-> got.raised]
  /\ UNCHANGED <<hooks, cache, db, calls, started, lastLoad, loaded>>

\* safeEval applied to a normalized expression.
ApplySafeEval ==
  /\ probe.op = "none"
  /\ \E q \in Queries, r \in Roots, strict \in BOOLEAN :
       LET path == normalizeExpr(q.cs)
       IN  probe' = [op |-> "safeEval", input |-> q, root |-> r, strict |-> strict,
                     engine |-> JSONPath(path, r, strict),
                     output |-> safeEval(path, r, strict).v]
  /\ UNCHANGED <<hooks, cache, db, calls, started, lastLoad, loaded>>

\* Strings without a placeholder and without an escape: text, white space,
\* a $ on its own, a closer, and the text of each sentinel.
PlainPieces ==
  {Lit(<<"v", "=">>), Ws, Lit(<<"$">>), Lit(Close), Lit(<<ESC_DOLLAR>>),
   Lit(<<ESC_DOLLAR_OPEN>>)}

\* evaluatePlaceholders applied to a string without placeholders.
EvaluatePlain ==
  /\ probe.op = "none"
  /\ \E t \in SeqsUpTo(PlainPieces, MaxPieces), r \in Roots, strict \in BOOLEAN :
       LET got == evaluatePlaceholders(JChars(RenderTemplate(t, 1)), r, strict)
       IN  probe' = [op |-> "evalPlain", input |-> t, root |-> r, strict |-> strict,
                     output |-> got.v, raised |-> got.raised]
  /\ UNCHANGED <<hooks, cache, db, calls, started, lastLoad, loaded>>

\* A root whose data holds the text of a placeholder: m is "${{ $[0].x }}".
EntryP == JObj(<<"m", "x">>, <<JChars(Ph("x0").cs), JNum("42")>>)
InjectedPieces == {Ph("m0"), Ph("x0"), Lit(<<"v", "=">>), Ws}

\* evaluatePlaceholders applied to a string, over that root.
EvaluateInjected ==
  /\ probe.op = "none"
  /\ \E t \in SeqsUpTo(InjectedPieces, MaxPieces), strict \in BOOLEAN :
       LET got == evaluatePlaceholders(JChars(RenderTemplate(t, 1)), <<EntryP>>, strict)
       IN  probe' = [op |-> "evalInjected", input |-> t, root |-> <<EntryP>>,
                     strict |-> strict, output |-> got.v, raised |-> got.raised]
  /\ UNCHANGED <<hooks, cache, db, calls, started, lastLoad, loaded>>

NextEval ==
  \/ EvaluateWhole
  \/ EvaluateTemplate
  \/ EvaluateValue
  \/ ApplySafeEval
  \/ EvaluatePlain
  \/ EvaluateInjected

SpecEval == Init /\ [][NextEval]_vars

\* ------------------------------------------- user-scoped MCP start-up
\* A server's entry in mcpConfig: startup is "absent" or "false",
\* startupUsers is absent, 'all' or a list of user IDs (kind "absent",
\* "all", "list"; ids the IDs of a list), startupUser is <<>> or <<id>>.
UserIds == {"u1", "u2"}
StartupUsers(kind, ids) == [kind |-> kind, ids |-> ids]
ServerConfigs ==
  [startup : {"absent", "false"},
   startupUsers : {StartupUsers("absent", {}), StartupUsers("all", {})}
                    \cup {StartupUsers("list", ids) : ids \in SUBSET UserIds},
   startupUser : {<<>>, <<"u1">>}]
\* What User.find returns: the users of the deployment, in storage order.
UserLists == {<<>>, <<"u1">>, <<"u2">>, <<"u1", "u2">>}
\* Servers in mcpConfig.
MaxServers == 1

\* The calls of reinitializeMCP made for the servers i.. of mcpConfig, as
\* <<server index, user id>>.  User.find rejects on its failAt-th call
\* (0: never), which lands in the outer catch and ends the function;
\* finds counts the calls made so far.
RECURSIVE StartupAttempts(_, _, _, _, _)
StartupAttempts(servers, i, users, failAt, finds) ==
  IF i > Len(servers) THEN <<>>
  ELSE IF servers[i].startup = "false"
    THEN StartupAttempts(servers, i + 1, users, failAt, finds)
  ELSE IF failAt = finds + 1 THEN <<>>
  ELSE [u \in 1..Len(users) |-> <<i, users[u]>>]
         \o StartupAttempts(servers, i + 1, users, failAt, finds + 1)

\* initializeUserMCPs of initializeUserMCPs.js.
initializeUserMCPs(mcpConfig, users, failAt) ==
  IF mcpConfig = <<>> THEN <<>> ELSE StartupAttempts(mcpConfig[1], 1, users, failAt, 0)

\* The users of a list for whom the server's connection state is
\* "disconnected"; for state "error" getServerConnectionStatus rejects,
\* which the catch inside the loop turns into a skip.
RECURSIVE Disconnected(_, _, _)
Disconnected(users, state, u) ==
  IF u > Len(users) THEN <<>>
  ELSE (IF state[users[u]] = "disconnected" THEN <<users[u]>> ELSE <<>>)
         \o Disconnected(users, state, u + 1)
RECURSIVE StartupAttemptsIfDisconnected(_, _, _, _, _, _)
StartupAttemptsIfDisconnected(servers, i, users, state, failAt, finds) ==
  IF i > Len(servers) THEN <<>>
  ELSE IF servers[i].startup = "false"
    THEN StartupAttemptsIfDisconnected(servers, i + 1, users, state, failAt, finds)
  ELSE IF failAt = finds + 1 THEN <<>>
  ELSE LET targets == Disconnected(users, state, 1)
       IN  [u \in 1..Len(targets) |-> <<i, targets[u]>>]
             \o StartupAttemptsIfDisconnected(servers, i + 1, users, state, failAt, finds + 1)
\* initializeUserMCPs as initializeJobs.js has it.
initializeUserMCPsJobs(mcpConfig, users, state, failAt) ==
  IF mcpConfig = <<>> THEN <<>>
  ELSE StartupAttemptsIfDisconnected(mcpConfig[1], 1, users, state, failAt, 0)

\* app.locals.mcpConfig: <<>> when it is not set, <<servers>> otherwise.
McpConfigs == {<<>>} \cup {<<servers>> : servers \in SeqsUpTo(ServerConfigs, MaxServers)}

StartupInitializeUserMCPs ==
  /\ probe.op = "none"
  /\ \E cfg \in McpConfigs, users \in UserLists, failAt \in 0..1 :
       probe' = [op |-> "startup", input |-> cfg, users |-> users, failAt |-> failAt,
                 state |-> [u \in UserIds |-> "disconnected"],
                 output |-> initializeUserMCPs(cfg, users, failAt)]
  /\ UNCHANGED <<hooks, cache, db, calls, started, lastLoad, loaded>>

StartupInitializeUserMCPsJobs ==
  /\ probe.op = "none"
  /\ \E cfg \in McpConfigs, users \in UserLists, failAt \in 0..1,
        state \in [UserIds -> {"disconnected", "connected", "error"}] :
       probe' = [op |-> "startupJobs", input |-> cfg, users |-> users, failAt |-> failAt,
                 state |-> state,
                 output |-> initializeUserMCPsJobs(cfg, users, state, failAt)]
  /\ UNCHANGED <<hooks, cache, db, calls, started, lastLoad, loaded>>

NextStartup == StartupInitializeUserMCPs \/ StartupInitializeUserMCPsJobs

SpecStartup == Init /\ [][NextStartup]_vars

\* ------------------------------------------------- job queues (p-queue)
\* As Concurrency, for a queue that runs two jobs at a time.
ConcurrencyTwo == 1 + 1
\* new PQueue({ concurrency: 1 })
Concurrency == 1
\* Requests and cron ticks in one behaviour.
MaxRequests == 2

\* queue.add(fn): the job goes behind the jobs the queue holds.  A job's
\* id is its place in jobs; status is "pending", "running", "ok" (its
\* promise fulfilled) or "failed" (its promise rejected); out is what the
\* job met on its way, once it has ended.
ProcessOutcome(kind, status, promptContent) ==
  [kind |-> kind, status |-> status, promptContent |-> promptContent]
NoOutcome == ProcessOutcome("none", 0, <<>>)
Job(q, kind, data) ==
  [q |-> q, kind |-> kind, data |-> data, status |-> "pending", out |-> NoOutcome]
Add(js, q, kind, data) == Append(js, Job(q, kind, data))
Pending(q) == {id \in 1..Len(jobs) : jobs[id].q = q /\ jobs[id].status = "pending"}
Running(q) == {id \in 1..Len(jobs) : jobs[id].q = q /\ jobs[id].status = "running"}
First(ids) == CHOOSE id \in ids : \A other \in ids : id <= other

\* ------------------------------------- webhook route /:name (agents/index.js)
\* config.webhooks: per name the auth block (<<>> when there is none), the
\* prompt and the user (<<>> when not set).
Auth(type, secret, prefix, clientState) ==
  [type |-> type, secret |-> secret, prefix |-> prefix, clientState |-> clientState]
WebhookConfig(auth, prompt, user) == [auth |-> auth, prompt |-> prompt, user |-> user]
WebhookNames == {"open", "gh", "hdr", "ms", "odd"}
Webhooks ==
  [name \in WebhookNames |->
     CASE name = "open" -> WebhookConfig(<<>>, <<>>, <<>>)
       [] name = "gh" -> WebhookConfig(<<Auth("github", "s1", <<>>, <<>>)>>, <<"Review">>, <<"a@x">>)
       [] name = "hdr" -> WebhookConfig(<<Auth("header", "s1", <<"Bearer ">>, <<>>)>>, <<>>, <<>>)
       [] name = "ms" -> WebhookConfig(<<Auth("microsoft", "", <<>>, <<"cs1">>)>>, <<>>, <<"a@x">>)
       [] OTHER -> WebhookConfig(<<Auth("basic", "s1", <<>>, <<>>)>>, <<>>, <<>>)]
RequestNames == WebhookNames \cup {"nope"}

\* crypto.createHmac(alg, secret).update(rawBody).digest('hex')
Hmac(secret, rawBody) == "hmac(" \o secret \o "," \o rawBody \o ")"

\* A request: method, query.validationToken, the signature header, rawBody,
\* the authorization header (<<>> when a field is absent) and
\* body.value[0].clientState.
Request(method, token, signature, rawBody, authorization, clientState) ==
  [method |-> method, validationToken |-> token, signature |-> signature,
   rawBody |-> rawBody, authorization |-> authorization, clientState |-> clientState]
WebhookRequests ==
  { Request("POST", <<>>, <<>>, <<>>, <<>>, <<>>),
    Request("GET", <<"tok">>, <<>>, <<>>, <<>>, <<>>),
    Request("GET", <<>>, <<>>, <<>>, <<>>, <<>>),
    Request("POST", <<"tok">>, <<>>, <<>>, <<>>, <<>>),
    Request("POST", <<>>, <<"sha256=" \o Hmac("s1", "b")>>, <<"b">>, <<>>, <<>>),
    Request("POST", <<>>, <<"sha256=" \o Hmac("s2", "b")>>, <<"b">>, <<>>, <<>>),
    Request("POST", <<>>, <<"sha256=" \o Hmac("s1", "b")>>, <<>>, <<>>, <<>>),
    Request("POST", <<>>, <<>>, <<"b">>, <<"Bearer s1">>, <<>>),
    Request("POST", <<>>, <<>>, <<"b">>, <<"s1">>, <<>>),
    Request("POST", <<>>, <<>>, <<"b">>, <<>>, <<"cs1">>),
    Request("POST", <<>>, <<>>, <<"b">>, <<>>, <<"other">>) }

verifyAuth(req, auth) ==
  IF auth = <<>> THEN TRUE
  ELSE CASE auth[1].type = "github" ->
              IF req.signature = <<>> \/ req.rawBody = <<>> THEN FALSE
              ELSE req.signature[1] = "sha256=" \o Hmac(auth[1].secret, req.rawBody[1])
         [] auth[1].type = "header" ->
              LET value == IF req.authorization = <<>> THEN "" ELSE req.authorization[1]
                  expected == IF auth[1].prefix # <<>>
                                THEN auth[1].prefix[1] \o auth[1].secret
                                ELSE auth[1].secret
              IN  value = expected
         [] auth[1].type = "microsoft" -> req.clientState = auth[1].clientState
         [] OTHER -> FALSE

\* What a handler did: the reply (status 0: none was sent) and the job it
\* added (<<>>: none).
Handled(status, body, job) == [status |-> status, body |-> body, job |-> job]

\* As HandleWebhook, without the verifyAuth test.
HandleWebhookNoVerify(name, req, configOk, findOk) ==
  IF ~configOk THEN Handled(0, "", <<>>)
  ELSE IF name \notin WebhookNames THEN Handled(404, "{error:Webhook not configured}", <<>>)
  ELSE IF req.method = "GET" /\ req.validationToken # <<>>
    THEN Handled(200, req.validationToken[1], <<>>)
  ELSE IF Webhooks[name].user # <<>> /\ ~findOk THEN Handled(0, "", <<>>)
  ELSE Handled(202, "{ok:true}", <<[name |-> name, prompt |-> Webhooks[name].prompt]>>)

\* router.all('/:name'): getCustomConfig or findUser may reject, and then
\* the handler ends without a reply.
HandleWebhook(name, req, configOk, findOk) ==
  IF ~configOk THEN Handled(0, "", <<>>)
  ELSE IF name \notin WebhookNames THEN Handled(404, "{error:Webhook not configured}", <<>>)
  ELSE IF req.method = "GET" /\ req.validationToken # <<>>
    THEN Handled(200, req.validationToken[1], <<>>)
  ELSE IF ~verifyAuth(req, Webhooks[name].auth) THEN Handled(401, "{error:Unauthorized}", <<>>)
  ELSE IF Webhooks[name].user # <<>> /\ ~findOk THEN Handled(0, "", <<>>)
  ELSE Handled(202, "{ok:true}", <<[name |-> name, prompt |-> Webhooks[name].prompt]>>)

WebhookRequest ==
  /\ requests < MaxRequests
  /\ \E name \in RequestNames, req \in WebhookRequests, configOk, findOk \in BOOLEAN :
       LET did == HandleWebhook(name, req, configOk, findOk)
       IN  /\ lastRequest' = [route |-> "webhook", name |-> name, req |-> req,
                               configOk |-> configOk, status |-> did.status,
                               body |-> did.body, added |-> did.job # <<>>]
           /\ jobs' = IF did.job = <<>> THEN jobs ELSE Add(jobs, "queue", "webhook", did.job[1])
  /\ requests' = requests + 1
  /\ UNCHANGED <<core, startedJobs, agentRuns>>

\* ------------------------- MCP webhook proxy /:server/:hook (webhooks.js)
\* config.mcpServers: server "srv" has a url and the hooks h1 (with a
\* prompt) and h2 (without); server "stdio" has no url.
HookConfig(prompt, user) == [prompt |-> prompt, user |-> user]
Hooks(server) ==
  IF server = "srv"
    THEN [hook \in {"h1", "h2"} |->
            IF hook = "h1" THEN HookConfig(<<"Review">>, "a@x") ELSE HookConfig(<<>>, "a@x")]
    ELSE [hook \in {"h1"} |-> HookConfig(<<>>, "a@x")]
HasUrl(server) == server = "srv"
McpServers == {"srv", "stdio"}
ProxyTargets ==
  {<<"srv", "h1">>, <<"srv", "h2">>, <<"srv", "h9">>, <<"stdio", "h1">>, <<"nope", "h1">>}

\* What fetch gives: kind "throw" (it rejects) or "response", with the
\* status, the body as response.text() reads it (<<>>: the read rejects)
\* and as response.json() reads it (<<>>: no JSON document).
Upstream(kind, status, text, data) ==
  [kind |-> kind, status |-> status, text |-> text, data |-> data]
ProxyData(code, content, processData) ==
  [reqResponseCode |-> code, reqResponseContent |-> content, processData |-> processData]
Upstreams ==
  {Upstream("throw", 0, <<>>, <<>>)}
    \cup {Upstream("response", st, text, <<>>) :
            st \in {400, 401, 500}, text \in {<<>>, <<"denied">>}}
    \cup {Upstream("response", 200, <<"x">>, data) :
            data \in {<<>>, <<ProxyData(200, "ok", <<"d1">>)>>,
                       <<ProxyData(202, "", <<>>)>>}}

\* router.all('/:server/:hook').  Body "next" with status 0 stands for
\* next(): the route does not answer.
HandleProxy(server, hook, up, configOk) ==
  IF ~configOk THEN Handled(0, "", <<>>)
  ELSE IF server \notin McpServers \/ ~HasUrl(server) \/ hook \notin DOMAIN Hooks(server)
    THEN Handled(0, "next", <<>>)
  ELSE IF up.kind = "throw" THEN Handled(502, "{error:Proxy error}", <<>>)
  ELSE IF up.status # 200
    THEN LET upstreamText == IF up.text = <<>> THEN "" ELSE up.text[1]
         IN  IF up.status = 400 THEN Handled(204, upstreamText, <<>>)
             ELSE Handled(up.status, upstreamText, <<>>)
  ELSE IF up.data = <<>> THEN Handled(502, "{error:Proxy error}", <<>>)
  ELSE Handled(up.data[1].reqResponseCode, up.data[1].reqResponseContent,
               IF up.data[1].processData = <<>> THEN <<>>
               ELSE <<[server |-> server, hook |-> hook,
                       prompt |-> Hooks(server)[hook].prompt,
                       processData |-> up.data[1].processData[1]]>>)

ProxyRequest ==
  /\ requests < MaxRequests
  /\ \E target \in ProxyTargets, up \in Upstreams, configOk \in BOOLEAN :
       LET did == HandleProxy(target[1], target[2], up, configOk)
       IN  /\ lastRequest' = [route |-> "proxy", target |-> target, upstream |-> up,
                               configOk |-> configOk, status |-> did.status,
                               body |-> did.body, added |-> did.job # <<>>]
           /\ jobs' = IF did.job = <<>> THEN jobs
                      ELSE Add(jobs, "processQueue", "process", did.job[1])
  /\ requests' = requests + 1
  /\ UNCHANGED <<core, startedJobs, agentRuns>>

\* ------------------------------------------------ cron jobs (initializeJobs.js)
\* config.jobs: per name the prompt (<<>> when not set).
CronJobs == [name \in {"daily", "bare"} |-> IF name = "daily" THEN <<"Summarize">> ELSE <<>>]

\* A cron tick: task() adds the job's run to the queue.
CronTick ==
  /\ requests < MaxRequests
  /\ \E name \in DOMAIN CronJobs :
       jobs' = Add(jobs, "jobsQueue", "cron", [name |-> name, prompt |-> CronJobs[name]])
  /\ requests' = requests + 1
  /\ UNCHANGED <<core, startedJobs, lastRequest, agentRuns>>

\* ------------------------------------------------------------ what jobs do
\* What a job did: how its promise settled, the text AgentController was
\* called with (<<>>: it was not called) and the job it added (<<>>: none).
Ran(status, agent, added) == [status |-> status, agent |-> agent, added |-> added]
Prefix(prompt) == IF prompt = <<>> THEN "" ELSE prompt[1] \o "\n\n"

\* processWebhook: a rejection of AgentController is caught.
processWebhook(data) == Ran("ok", <<Prefix(data.prompt) \o "<payload>">>, <<>>)

\* runScheduledJob
runScheduledJob(data) ==
  Ran("ok", <<IF data.prompt = <<>> THEN "" ELSE data.prompt[1]>>, <<>>)

\* What the process endpoint gives: findUser rejects ("findFails"), fetch
\* rejects ("throw"), or a response with a status and data.promptContent
\* (<<>>: not set).
ProcessOutcomes ==
  {ProcessOutcome("findFails", 0, <<>>), ProcessOutcome("throw", 0, <<>>),
   ProcessOutcome("response", 500, <<"PR opened">>)}
    \cup {ProcessOutcome("response", 200, pc) : pc \in {<<>>, <<"">>, <<"PR opened">>}}

\* processWebhookData: every error is caught and logged.
processWebhookData(id, data, out) ==
  IF out.kind = "response" /\ out.status = 200 /\ out.promptContent \notin {<<>>, <<"">>}
    THEN Ran("ok", <<>>, <<[name |-> data.server \o "/" \o data.hook, prompt |-> data.prompt,
                            promptContent |-> out.promptContent[1], from |-> id]>>)
    ELSE Ran("ok", <<>>, <<>>)

\* processMCPWebhook
processMCPWebhook(data) == Ran("ok", <<Prefix(data.prompt) \o data.promptContent>>, <<>>)

\* The names bound where processWebhookData builds the prompt job: its
\* parameters and locals, and the names of the module.
ProcessWebhookDataScope ==
  {"server", "hook", "hookConfig", "serverConfig", "processData", "user", "userId",
   "processUrl", "headers", "controller", "timeoutMs", "timer", "response", "data",
   "promptContent",
   "express", "PQueue", "logger", "router", "processQueue", "promptQueue",
   "processMCPWebhook", "processWebhookData", "require", "module", "exports"}

\* The job () => processMCPWebhook({ req, name, userId, hookConfig,
\* promptContent }): reading a name that is not bound raises a
\* ReferenceError, which rejects the job's promise.
PromptJob(data) ==
  IF {"req", "userId", "hookConfig", "promptContent"} \subseteq ProcessWebhookDataScope
    THEN processMCPWebhook(data)
    ELSE Ran("failed", <<>>, <<>>)

RunJob(id, out) ==
  CASE jobs[id].kind = "webhook" -> processWebhook(jobs[id].data)
    [] jobs[id].kind = "cron" -> runScheduledJob(jobs[id].data)
    [] jobs[id].kind = "process" -> processWebhookData(id, jobs[id].data, out)
    [] OTHER -> PromptJob(jobs[id].data)

\* The queue starts its first pending job when fewer than Concurrency of
\* its jobs are running.
StartJob(q) ==
  /\ Pending(q) # {}
  /\ Cardinality(Running(q)) < Concurrency
  /\ jobs' = [jobs EXCEPT ![First(Pending(q))].status = "running"]
  /\ startedJobs' = [startedJobs EXCEPT ![q] = Append(@, First(Pending(q)))]
  /\ UNCHANGED <<core, lastRequest, agentRuns, requests>>

\* A running job comes to its end.
FinishJob(q) ==
  /\ \E id \in Running(q) :
       \E out \in IF jobs[id].kind = "process" THEN ProcessOutcomes ELSE {NoOutcome} :
         LET ran == RunJob(id, out)
             done == [jobs EXCEPT ![id].status = ran.status, ![id].out = out]
         IN  /\ jobs' = IF ran.added = <<>> THEN done
                        ELSE Add(done, "promptQueue", "prompt", ran.added[1])
             /\ agentRuns' = IF ran.agent = <<>> THEN agentRuns
                             ELSE Append(agentRuns, [job |-> id, text |-> ran.agent[1]])
  /\ UNCHANGED <<core, startedJobs, lastRequest, requests>>

NextHooks ==
  \/ WebhookRequest
  \/ ProxyRequest
  \/ CronTick
  \/ \E q \in QueueNames : StartJob(q)
  \/ \E q \in QueueNames : FinishJob(q)

SpecHooks == Init /\ [][NextHooks]_vars

\* ------------------------------------------------------------- properties
IsLoad(c) == calls[c].op = "loadHistory"
IsAdd(c) == calls[c].op = "add"
IsDone(c) == calls[c].pc = "done"
\* The step in which call c moves on.
Steps(c) == calls[c].pc \notin {"idle", "done"} /\ calls'[c].pc # calls[c].pc
\* The step in which call c finishes.
Finishes(c) == Steps(c) /\ calls'[c].pc = "done"
IsPrefix(a, b) == Len(a) <= Len(b) /\ SubSeq(b, 1, Len(a)) = a

C3_AddWithoutListIsNoOp ==
  [][\A c \in Slots :
       IsAdd(c) /\ calls[c].pc = "get" /\ Steps(c) /\ cache[KeyOf(calls[c])] = <<>> =>
         /\ calls'[c].pc = "done"
         /\ ~calls'[c].wrote
         /\ cache' = cache]_vars

C3_Witness ==
  \E c \in Slots :
    /\ IsAdd(c) /\ IsDone(c) /\ calls[c].getOk /\ calls[c].seen = <<>>
    /\ ~calls[c].wrote
    /\ cache[KeyOf(calls[c])] = <<>>
    /\ \E k \in Keys : cache[k] # <<>> /\ cache[k][1] # <<>>

\* C4: when an addRuntimeCachedEntry runs with no other call for its key in
\* flight and no expiry, the list cached before its store.set is a prefix of
\* the list cached after it, and a successful store.set leaves the old list
\* followed by the new entries.
C4_AppendOnly ==
  [][\A c \in Slots :
       IsAdd(c) /\ calls[c].pc = "write" /\ Finishes(c) /\ calls[c].seq =>
         LET k == KeyOf(calls[c])
         IN  /\ cache[k] # <<>> /\ cache'[k] # <<>>
             /\ IsPrefix(cache[k][1], cache'[k][1])
             /\ calls'[c].setOk => cache'[k][1] = cache[k][1] \o addEntries(calls[c].arg)]_vars

C4_Witness ==
  \E c \in Slots :
    /\ IsAdd(c) /\ IsDone(c) /\ calls[c].seq /\ calls[c].setOk
    /\ calls[c].seen # <<>> /\ calls[c].seen[1] # <<>>
    /\ addEntries(calls[c].arg) # <<>>
    /\ cache[KeyOf(calls[c])] = <<calls[c].seen[1] \o addEntries(calls[c].arg)>>

C6_FetchFailureGivesEmpty ==
  \A c \in Slots : IsLoad(c) /\ IsDone(c) /\ calls[c].fetched /\ ~calls[c].fetchOk =>
    calls[c].ret = <<>> /\ ~calls[c].raised

C6_Witness ==
  \E c \in Slots :
    /\ IsLoad(c) /\ IsDone(c) /\ calls[c].fetched /\ ~calls[c].fetchOk
    /\ buildEntriesFromMessages(db[calls[c].conv]) # <<>>
    /\ calls[c].ret = <<>>

C9_EntriesAreObjects ==
  \A k \in Keys : cache[k] # <<>> =>
    \A i \in 1..Len(cache[k][1]) : cache[k][1][i].t = "obj"

\* The entries C10 describes for the items of an array: one per element that
\* is an object with type "text" and whose text JSON-parses, whatever the
\* parsed value.
RECURSIVE SuccessfulTextParses(_, _)
SuccessfulTextParses(items, i) ==
  IF i > Len(items) THEN <<>>
  ELSE LET parsed == JSONparse(Prop(items[i], "text"))
       IN  (IF items[i].t = "obj" /\ Prop(items[i], "type") = JStr("text") /\ parsed.ok
              THEN <<parsed.v>> ELSE <<>>)
             \o SuccessfulTextParses(items, i + 1)

\* C10 as stated: when a tool output parses to an array, each element that
\* is an object with type "text" and whose text parses becomes one entry,
\* in element order, and the array itself is the one entry only when no
\* element's text parsed.
C10_ArrayUnwrapEveryParse ==
  probe.op = "toolOutput" /\ JSONparse(probe.input).ok /\ IsArray(JSONparse(probe.input).v) =>
    LET arr == JSONparse(probe.input).v
        parses == SuccessfulTextParses(arr.kids, 1)
    IN  probe.output = IF parses = <<>> THEN <<arr>> ELSE parses

\* Where a tagged entry came from, as numbers that sort in extraction order.
IntOf(s) == CHOOSE i \in 0..9 : ToString(i) = s
RuleRank(rule) == CASE rule = "tool" -> 1 [] rule = "text" -> 2 [] OTHER -> 3
Src(e) ==
  <<IntOf(Prop(e, "msg").s), RuleRank(Prop(e, "rule").s),
    IntOf(Prop(e, "part").s), IntOf(Prop(e, "block").s)>>
RECURSIVE Before(_, _, _)
Before(a, b, i) ==
  i <= Len(a) /\ (a[i] < b[i] \/ (a[i] = b[i] /\ Before(a, b, i + 1)))
\* The number of entries a history of these layouts holds.
RECURSIVE SourceCount(_, _)
SourceCount(layouts, m) ==
  IF m > Len(layouts) THEN 0
  ELSE LET parts == layouts[m].parts
           tools == Cardinality({p \in 1..Len(parts) : parts[p] = "tool_call"})
       IN  2 * tools + layouts[m].blocks + MaxBlocks * (Len(parts) - tools)
             + SourceCount(layouts, m + 1)

\* C11: the entry list of a persisted history holds every source's entries
\* once, ordered by message, within a message tool-call outputs (by content
\* part) before the blocks of the message text before the blocks of text
\* parts (by content part), and within one source in its own order; the
\* JSON root has them at the same positions, the earliest at position 0.
C11_ExtractionOrder ==
  probe.op = "messages" =>
    /\ Len(probe.output) = SourceCount(probe.input, 1)
    /\ \A i, j \in 1..Len(probe.output) :
         i < j => Before(Src(probe.output[i]), Src(probe.output[j]), 1)
\* A two-message history whose first message has a text part before a tool
\* call and blocks in its text: the first entry is the tool call's.
C11_Witness ==
  /\ probe.op = "messages" /\ Len(probe.input) = 2
  /\ probe.input[1] = [parts |-> <<"text", "tool_call">>, blocks |-> MaxBlocks]
  /\ probe.input[2].parts = <<"tool_call">>
  /\ probe.output[1] = Tag(1, "tool", 2, 1)
  /\ probe.output[Len(probe.output)] = Tag(2, "tool", 1, 2)
  /\ Len(probe.output) = 2 + MaxBlocks + MaxBlocks + 2 + probe.input[2].blocks

\* The entries C12 describes for the segments of a text: one per json block
\* whose payload parses to a JSON object.
RECURSIVE ObjectBlocks(_, _)
ObjectBlocks(segs, i) ==
  IF i > Len(segs) THEN <<>>
  ELSE LET parsed == JSONparse(segs[i].body)
       IN  (IF segs[i].kind \in BlockKinds /\ parsed.ok /\ parsed.v.t = "obj"
              THEN <<parsed.v>> ELSE <<>>)
             \o ObjectBlocks(segs, i + 1)

\* C12 as stated: for every text, extractJsonCodeBlocks yields one entry
\* per json fenced block whose content parses to a JSON object, in the
\* order of the blocks; a block holding an array, a scalar or malformed
\* JSON yields nothing and later blocks are still extracted.
C12_OneEntryPerObjectBlock ==
  probe.op = "blocks" => probe.output = ObjectBlocks(probe.input, 1)

\* C13: for every tool output string s, what addRuntimeCachedEntry pushes
\* onto the cached array for s is what the extractor produces for a
\* persisted message whose only content part is a tool call with output s.
C13_LiveAgreesWithPersisted ==
  probe.op = "liveResult" /\ IsString(probe.input) =>
    probe.output = buildEntriesFromMessages(<<Message(<<>>, <<<<ToolPart(probe.input)>>>>)>>)
\* A live output string that unwraps to two entries.
C13_Witness ==
  /\ probe.op = "liveResult" /\ IsString(probe.input)
  /\ probe.output = <<ObjK, ObjM>>

\* ---- what the claims say of the evaluator
\* The values a query matches in a root, read off the root directly.
RECURSIVE PropsOf(_, _, _)
PropsOf(root, n, i) ==
  IF i > Len(root) THEN <<>>
  ELSE (IF Prop(root[i], n) # Undefined THEN <<Prop(root[i], n)>> ELSE <<>>)
         \o PropsOf(root, n, i + 1)
Matches(q, root) ==
  IF q.kind = "wild" THEN PropsOf(root, q.n, 1)
  ELSE IF q.i < Len(root) /\ Prop(root[q.i + 1], q.n) # Undefined
    THEN <<Prop(root[q.i + 1], q.n)>>
  ELSE <<>>
\* What a query evaluates to: the one match, or the array of the matches.
Answer(q, root) ==
  LET m == Matches(q, root) IN IF Len(m) = 1 THEN m[1] ELSE JArr(m)

\* A string without the white space at its ends.
RECURSIVE StripWs(_)
StripWs(t) ==
  IF t # <<>> /\ Head(t).kind = "ws" THEN StripWs(Tail(t))
  ELSE IF t # <<>> /\ t[Len(t)].kind = "ws" THEN StripWs(SubSeq(t, 1, Len(t) - 1))
  ELSE t
\* The string consists of exactly one placeholder.
SinglePh(t) == Len(StripWs(t)) = 1 /\ StripWs(t)[1].kind = "ph"
PhCount(t) == Cardinality({i \in 1..Len(t) : t[i].kind = "ph"})
HasBad(t) == \E i \in 1..Len(t) : t[i].kind = "ph" /\ QueryOf(t[i].q).kind = "bad"
HasEscape(t) == \E i \in 1..Len(t) : t[i].kind \in {"escOpen", "escDollar"}

\* The text the claims give for the pieces t[i..] under embedded
\* substitution: a placeholder is replaced by its result (nothing for
\* null, undefined and a failed evaluation, a string as it is, anything
\* else as JSON), an escape by the text it escapes, other text is kept.
RECURSIVE Expected(_, _, _)
Expected(t, root, i) ==
  IF i > Len(t) THEN <<>>
  ELSE LET q == QueryOf(t[i].q)
           v == IF q.kind = "bad" THEN Undefined ELSE Answer(q, root)
           text == CASE t[i].kind = "ph" ->
                          IF v.t \in {"null", "undefined"} THEN <<>>
                          ELSE IF v.t = "str" THEN CharsOf(v) ELSE Stringify(v)
                     [] t[i].kind = "escOpen" -> Open
                     [] t[i].kind = "escDollar" -> <<"$">>
                     [] OTHER -> t[i].cs
       IN  text \o Expected(t, root, i + 1)

\* C14: when the trimmed string is a single placeholder, the result is the
\* value the normalized expression evaluates to, with its own type (an
\* object, an array, a number, a boolean, null or a string), not a
\* rendering of it as text.
C14_WholeStringKeepsType ==
  probe.op = "eval" /\ SinglePh(probe.input) /\ ~HasBad(probe.input) =>
    probe.output = Answer(QueryOf(StripWs(probe.input)[1].q), probe.root)
\* "${{ $[0].x }}" over a root whose first entry has x = 42 gives the
\* number 42.
C14_Witness ==
  /\ probe.op = "eval" /\ probe.input = <<Ph("x0")>>
  /\ Prop(probe.root[1], "x") = JNum("42")
  /\ probe.output = JNum("42")

\* C15 as stated: a string that holds two or more placeholders is rewritten
\* by embedded substitution and the result is a string, and a string is
\* rewritten to something that is no string only when it consists of
\* exactly one placeholder.
C15_WholeStringOnlyForOnePlaceholder ==
  probe.op = "eval" =>
    /\ PhCount(probe.input) >= 2 => probe.output.t = "str"
    /\ probe.output.t # "str" => SinglePh(probe.input)

\* C16 as stated: in a string that is not a single placeholder (and holds
\* no escapes), every placeholder is replaced in place by its result (the
\* empty string for null and undefined, a string verbatim, anything else
\* as its JSON text) and the text around it is kept.
C16_EmbeddedSubstitution ==
  probe.op = "eval" /\ ~SinglePh(probe.input) /\ ~HasEscape(probe.input)
      /\ ~HasBad(probe.input) =>
    probe.output = JChars(Expected(probe.input, probe.root, 1))

\* C17 as stated: in a string with a backslash-escaped opener or a
\* backslash-escaped $, the escape causes no path query and comes out as
\* the literal text it escapes, the placeholders being substituted as
\* usual.
C17_EscapesNeverEvaluated ==
  probe.op = "eval" /\ HasEscape(probe.input) /\ ~HasBad(probe.input) =>
    probe.output = JChars(Expected(probe.input, probe.root, 1))

\* What C18 says of the rewrite of value v, given the rewrite of each of
\* its elements.
ShapeKept(v, out, root, strict) ==
  CASE v.t = "arr" ->
         /\ out.t = "arr" /\ Len(out.kids) = Len(v.kids)
         /\ \A i \in 1..Len(v.kids) :
              out.kids[i] = evaluatePlaceholders(v.kids[i], root, strict).v
    [] v.t = "obj" ->
         /\ out.t = "obj" /\ out.keys = v.keys /\ Len(out.kids) = Len(v.kids)
         /\ \A i \in 1..Len(v.kids) :
              out.kids[i] = evaluatePlaceholders(v.kids[i], root, strict).v
    [] OTHER -> out = v
\* C18 as stated: null, undefined and scalars that are no strings come back
\* unchanged, an array comes back as an array of the same length whose
\* elements are the rewrites of its elements, and an object comes back as
\* an object with exactly the same keys whose values are the rewrites of
\* its values.
C18_ShapePreserved ==
  probe.op = "evalValue" =>
    ShapeKept(probe.input, probe.output, probe.root, probe.strict)

\* C19: when the path query of safeEval matches exactly one element,
\* safeEval returns that element's value and not a one-element array; when
\* it matches none or two or more, it returns the array of the matches.
C19_SingletonUnwrap ==
  probe.op = "safeEval" /\ probe.input.kind # "bad" =>
    LET m == Matches(probe.input, probe.root)
    IN  /\ probe.engine.res = m
        /\ Len(m) = 1 => probe.output = m[1]
        /\ Len(m) # 1 => probe.output = JArr(m)
\* [*].k over a one-entry root matches one element, itself an array: that
\* array is the result, not an array around it.
C19_Witness ==
  /\ probe.op = "safeEval" /\ probe.input.id = "k*" /\ Len(probe.root) = 1
  /\ Len(probe.engine.res) = 1
  /\ probe.output = JArr(<<JNum("1"), JNum("2")>>)

\* C20 as stated: when the path engine raises on a placeholder's
\* expression, a string that is that one placeholder evaluates to
\* undefined, and in any other string the placeholder is replaced by the
\* empty string while the other placeholders are evaluated and
\* substituted.
C20_FailureGivesUndefined ==
  probe.op = "eval" /\ probe.strict /\ HasBad(probe.input) =>
    IF SinglePh(probe.input) THEN probe.output = Undefined
    ELSE probe.output = JChars(Expected(probe.input, probe.root, 1))

\* C21 as stated: a step of a loadHistory or addRuntimeCachedEntry call for
\* one (conversationId, runId) pair leaves the list cached for every other
\* pair as it was, whatever the identifiers are.
C21_KeysIndependent ==
  [][\A c \in Slots, q \in ConvIds \X RunIds :
       (/\ calls[c].op \in {"loadHistory", "add"}
        /\ calls[c].pc \notin {"idle", "done"} /\ calls'[c].pc # calls[c].pc
        /\ <<calls[c].conv, calls[c].run>> # q)
         => cache'[runtimeKey(q[1], q[2])] = cache[runtimeKey(q[1], q[2])]]_vars

\* C22: when two addRuntimeCachedEntry calls for one key have both read the
\* same cached list, one has written its entries back, and the other now
\* writes, the cache holds the list that was read followed by the entries
\* of the second writer only: the entries of the first are lost.
C22_LostUpdate ==
  [][\A c, d \in Slots :
       (/\ c # d /\ KeyOf(calls[c]) = KeyOf(calls[d])
        /\ calls[c].op = "add" /\ calls[c].pc = "write"
        /\ calls'[c].pc = "done" /\ calls'[c].setOk
        /\ calls[d].op = "add" /\ calls[d].pc = "done"
        /\ calls[d].wrote /\ calls[d].setOk
        /\ calls[d].seen = calls[c].seen
        /\ addEntries(calls[d].arg) # <<>>)
         => cache'[KeyOf(calls[c])] = <<calls[c].seen[1] \o addEntries(calls[c].arg)>>]_vars
\* Two calls for one key read the empty list; both write; the cache holds
\* the entry of one of them and not the entry of the other.
C22_Witness ==
  \E c, d \in Slots :
    /\ c # d /\ KeyOf(calls[c]) = KeyOf(calls[d])
    /\ calls[c].op = "add" /\ calls[d].op = "add"
    /\ calls[c].pc = "done" /\ calls[d].pc = "done"
    /\ calls[c].wrote /\ calls[c].setOk /\ calls[d].wrote /\ calls[d].setOk
    /\ calls[c].seen = << <<>> >> /\ calls[d].seen = << <<>> >>
    /\ addEntries(calls[c].arg) = <<ObjK>> /\ addEntries(calls[d].arg) = <<ObjM>>
    /\ cache[KeyOf(calls[c])] = << <<ObjK>> >>

\* The field of a tool call the claim has the extractor read, with what it
\* holds: function.output when that is a string, else output when that is
\* a string, else none.
Used(shape) ==
  IF shape.fn \in {"json", "bad", "empty"} THEN <<"fn", shape.fn>>
  ELSE IF shape.out \in {"json", "bad", "empty"} THEN <<"out", shape.out>>
  ELSE <<>>
RECURSIVE PartsExpected(_, _)
PartsExpected(shapes, p) ==
  IF p > Len(shapes) THEN <<>>
  ELSE (IF Used(shapes[p]) # <<>> /\ Used(shapes[p])[2] = "json"
          THEN <<Tag(1, Used(shapes[p])[1], p, 1)>> ELSE <<>>)
         \o PartsExpected(shapes, p + 1)
\* C23: each tool-call part contributes the parse of function.output when
\* that is a string, and otherwise of output when that is a string; a part
\* without a string output, or whose string is no JSON document,
\* contributes nothing, and the entries of the other parts and of the
\* later message are extracted all the same.
C23_OutputSelection ==
  probe.op = "toolParts" =>
    probe.output = PartsExpected(probe.input, 1) \o <<Tag(2, "text", 0, 1)>>
\* A part whose function.output is no JSON document and whose output is
\* one gives nothing; the next part, whose function.output is a number,
\* gives the parse of its output; the later message gives its block.
C23_Witness ==
  /\ probe.op = "toolParts"
  /\ probe.input = << [nested |-> FALSE, fn |-> "bad", out |-> "json"],
                      [nested |-> TRUE, fn |-> "number", out |-> "json"] >>
  /\ probe.output = <<Tag(1, "out", 2, 1), Tag(2, "text", 0, 1)>>

\* The users for whom server i was attempted.
AttemptedFor(attempts, i) ==
  {attempts[a][2] : a \in {b \in 1..Len(attempts) : attempts[b][1] = i}}
\* C25 as stated: for a server with startup: false no user is attempted;
\* otherwise, with startupUsers a list of user IDs only those users are
\* attempted, with startupUser (and no startupUsers) only that user, and
\* with startupUsers 'all' every user is, as long as User.find succeeds.
C25_StartupUserSelection ==
  probe.op \in {"startup", "startupJobs"} /\ probe.input # <<>> =>
    \A i \in 1..Len(probe.input[1]) :
      LET cfg == probe.input[1][i]
          got == AttemptedFor(probe.output, i)
          all == {probe.users[u] : u \in 1..Len(probe.users)}
      IN  /\ cfg.startup = "false" => got = {}
          /\ cfg.startup # "false" /\ cfg.startupUsers.kind = "list"
               => got \subseteq cfg.startupUsers.ids
          /\ cfg.startup # "false" /\ cfg.startupUsers.kind = "absent"
               /\ cfg.startupUser # <<>>
               => got \subseteq {cfg.startupUser[1]}
          /\ cfg.startup # "false" /\ cfg.startupUsers.kind = "all" /\ probe.failAt = 0
               /\ probe.op = "startup"
               => got = all

\* C29 as stated: a string without a placeholder and without an escape
\* comes back unchanged, white space at its ends and the text of the
\* sentinels included.
C29_IdentityOnPlainStrings ==
  probe.op = "evalPlain" => probe.output = JChars(RenderTemplate(probe.input, 1))

\* The string goes to the whole-string branch: trimmed, it starts with an
\* opener and ends with a closer.
WholePattern(t) ==
  LET trimmed == Trim(RenderTemplate(t, 1))
  IN  StartsWith(trimmed, Open) /\ EndsWith(trimmed, Close) /\ Len(trimmed) >= 6
\* C30: under embedded substitution the text put in for a placeholder is
\* not scanned again: a result that holds the text of a placeholder comes
\* out as that text, and no query is made for it.
C30_NoSecondEvaluation ==
  probe.op = "evalInjected" /\ ~WholePattern(probe.input) =>
    probe.output = JChars(Expected(probe.input, probe.root, 1))
\* "v=${{ [0].m}}" over a root whose m is "${{ $[0].x }}" gives
\* "v=${{ $[0].x }}".
C30_Witness ==
  /\ probe.op = "evalInjected"
  /\ probe.input = <<Lit(<<"v", "=">>), Ph("m0")>>
  /\ probe.output = JChars(<<"v", "=">> \o Ph("x0").cs)

\* ---- what the claims say of the webhook routes and the queues
\* The proxy has a configuration for the target and got it loaded.
ProxyConfigured(r) ==
  /\ r.configOk /\ r.target[1] \in McpServers /\ HasUrl(r.target[1])
  /\ r.target[2] \in DOMAIN Hooks(r.target[1])
\* C24 as stated: when the upstream server answers with a status other
\* than 200, the proxy answers with that status and that body text, and
\* adds no job.
C24_NonOkPassedThrough ==
  (/\ lastRequest.route = "proxy" /\ ProxyConfigured(lastRequest)
   /\ lastRequest.upstream.kind = "response" /\ lastRequest.upstream.status # 200
   /\ lastRequest.upstream.text # <<>>)
    => /\ lastRequest.status = lastRequest.upstream.status
       /\ lastRequest.body = lastRequest.upstream.text[1]
       /\ ~lastRequest.added

\* C26 as stated: for a process job whose endpoint answered 200 with a
\* promptContent that is not empty, a prompt job is on the prompt queue,
\* and once that job has been taken from the queue and has ended,
\* AgentController has been called with the hook's prompt prefix followed
\* by promptContent.
C26_PromptDelivered ==
  \A id \in 1..Len(jobs) :
    (/\ jobs[id].kind = "process" /\ jobs[id].status = "ok"
     /\ jobs[id].out.kind = "response" /\ jobs[id].out.status = 200
     /\ jobs[id].out.promptContent \notin {<<>>, <<"">>})
      => \E p \in 1..Len(jobs) :
           /\ jobs[p].q = "promptQueue" /\ jobs[p].kind = "prompt"
           /\ jobs[p].data.from = id
           /\ jobs[p].status \in {"ok", "failed"}
                => \E r \in 1..Len(agentRuns) :
                     agentRuns[r] = [job |-> p,
                                     text |-> Prefix(jobs[id].data.prompt)
                                                \o jobs[id].out.promptContent[1]]

\* C27: on the /:name route a job is added only for a configured name
\* whose request passes verifyAuth; a name that is not configured is
\* answered 404, a GET with a validationToken for a configured name 200
\* with the token as body, any other request that fails verifyAuth 401,
\* and in those three cases no job is added.
C27_AuthorizationGate ==
  lastRequest.route = "webhook" /\ lastRequest.configOk =>
    LET r == lastRequest
        configured == r.name \in WebhookNames
        validation == r.req.method = "GET" /\ r.req.validationToken # <<>>
    IN  /\ ~configured => r.status = 404 /\ ~r.added
        /\ configured /\ validation
             => r.status = 200 /\ r.body = r.req.validationToken[1] /\ ~r.added
        /\ configured /\ ~validation /\ ~verifyAuth(r.req, Webhooks[r.name].auth)
             => r.status = 401 /\ ~r.added
        /\ r.added => configured /\ verifyAuth(r.req, Webhooks[r.name].auth)
                        /\ r.status = 202
\* A request for the GitHub-signed hook whose signature was made with
\* another secret is answered 401, and the queue stays empty.
C27_Witness ==
  /\ lastRequest.route = "webhook" /\ lastRequest.configOk /\ lastRequest.name = "gh"
  /\ lastRequest.req.signature = <<"sha256=" \o Hmac("s2", "b")>>
  /\ lastRequest.status = 401 /\ ~lastRequest.added
  /\ jobs = <<>>

====
